---- MODULE Spec2Model ----
(***************************************************************************)
(* Earley chart parser of BuffaloBuffalo (src/src/parser/earley.ts) with   *)
(* its Grammar (src/src/parser/grammar.ts) and Lexicon collaborators.      *)
(*                                                                         *)
(* Conventions: an optional value (word?, errors?, terminalWord?) is a     *)
(* sequence of length at most one: <<>> is undefined, <<v>> is v.          *)
(* Chart positions 0..N are the indices 1..N+1 of the sequence chart.      *)
(* Rule probabilities are kept in hundredths (1.0 is 100).                 *)
(***************************************************************************)
EXTENDS Integers, Sequences, FiniteSets, TLC

VARIABLES grammar, lexicon, input, pc, chart, chartSet, nextId, edges, pos, i,
          result, seen

vars == <<grammar, lexicon, input, pc, chart, chartSet, nextId, edges, pos, i,
          result, seen>>

----------------------------------------------------------------------------
(* Bounds of the model *)

\* longest token sequence drawn for a parse call
MaxLen == 3

----------------------------------------------------------------------------
(* Generic sequence helpers *)

RECURSIVE Join(_, _)
\* Array.prototype.join on strings
Join(s, sep) ==
  IF Len(s) = 0 THEN ""
  ELSE IF Len(s) = 1 THEN s[1]
  ELSE s[1] \o sep \o Join(Tail(s), sep)

\* Array.prototype.slice(0, n)
Slice0(s, n) == IF Len(s) <= n THEN s ELSE SubSeq(s, 1, n)

Range(s) == {s[k] : k \in 1..Len(s)}

\* e, with v evaluated first.  TLC evaluates the arguments of an operator
\* when they are first used; an accumulator threaded through a loop is
\* evaluated here at every iteration, as the program does, instead of as one
\* nested chain at the end.
Strict(v, e) == IF v = v THEN e ELSE e

\* Map.prototype.set: the map m with key k bound to v
MapSet(m, k, v) == (k :> v) @@ m

\* all sequences over S of length 0..n
SeqsUpTo(S, n) == UNION {[1..k -> S] : k \in 0..n}

----------------------------------------------------------------------------
(* Grammar: src/src/parser/grammar.ts *)

\* the fixed non-terminal set of isTerminal
nonTerminals == {"S", "NP", "VP", "PP", "ADJP", "ADVP", "RC"}

isTerminal(symbol) == symbol \notin nonTerminals

isNonTerminal(symbol) == ~isTerminal(symbol)

\* new Grammar(): rules = [], rulesByLhs = empty map
NewGrammar == [rules |-> <<>>, rulesByLhs |-> <<>>]

\* Map.get(lhs) ?? [] on rulesByLhs, a function from the present keys
RulesByLhsGet(g, lhs) ==
  IF lhs \in DOMAIN g.rulesByLhs THEN g.rulesByLhs[lhs] ELSE <<>>

\* an addRule that files the rule under its left-hand side after all the
\* rules added so far
addRule_oneList(g, lhs, rhs, probability) ==
  LET rule == [lhs |-> lhs, rhs |-> rhs, probability |-> probability]
  IN [rules |-> g.rules \o <<rule>>,
      rulesByLhs |-> MapSet(g.rulesByLhs, lhs, g.rules \o <<rule>>)]

addRule(g, lhs, rhs, probability) ==
  LET rule == [lhs |-> lhs, rhs |-> rhs, probability |-> probability]
      existing == RulesByLhsGet(g, lhs) \o <<rule>>
  IN [rules |-> g.rules \o <<rule>>,
      rulesByLhs |-> MapSet(g.rulesByLhs, lhs, existing)]

getRulesFor(g, lhs) == RulesByLhsGet(g, lhs)

getAllRules(g) == g.rules

startSymbol == "S"

RECURSIVE AddRules(_, _)
\* a chain of addRule calls, one per element of rs = <<lhs, rhs, probability>>,
\* in order (the calls of the first half, then those of the second half)
AddRules(g, rs) ==
  Strict(g,
    IF Len(rs) = 0 THEN g
    ELSE IF Len(rs) = 1 THEN addRule(g, rs[1][1], rs[1][2], rs[1][3])
    ELSE LET h == Len(rs) \div 2
         IN AddRules(AddRules(g, SubSeq(rs, 1, h)), SubSeq(rs, h + 1, Len(rs))))

----------------------------------------------------------------------------
(* Lexicon: class Lexicon in src/src/parser/lexicon.test.ts *)

\* String.prototype.toLowerCase on the words of the model
toLowerCase(w) ==
  CASE w = "Buffalo" -> "buffalo"
    [] w = "The" -> "the"
    [] w \in {"Dog", "DOG"} -> "dog"
    [] OTHER -> w

NewLexicon == <<>>

EntriesGet(lex, key) == IF key \in DOMAIN lex THEN lex[key] ELSE <<>>

\* features and lemma are optional; lemma defaults to the lower-cased word
\* an addWord that replaces the entries of the word by the new one
addWord_replaces(lex, word, p, features, lemma) ==
  LET entry == [word |-> word, pos |-> p,
                lemma |-> IF lemma = <<>> THEN toLowerCase(word) ELSE lemma[1],
                features |-> features]
  IN MapSet(lex, toLowerCase(word), <<entry>>)

addWord(lex, word, p, features, lemma) ==
  LET entry == [word |-> word, pos |-> p,
                lemma |-> IF lemma = <<>> THEN toLowerCase(word) ELSE lemma[1],
                features |-> features]
      key == toLowerCase(word)
      existing == EntriesGet(lex, key) \o <<entry>>
  IN MapSet(lex, key, existing)

\* a lookup under the word as given
lookup_caseSensitive(lex, word) == EntriesGet(lex, word)

lookup(lex, word) == EntriesGet(lex, toLowerCase(word))

has(lex, word) == toLowerCase(word) \in DOMAIN lex

\* Array.from(this.entries.keys()), as a set
words(lex) == DOMAIN lex

RECURSIVE CountEntries(_, _)
\* for (const entries of this.entries.values()) count += entries.length
CountEntries(lex, keys) ==
  IF keys = {} THEN 0
  ELSE LET k == CHOOSE x \in keys : TRUE
       IN Len(lex[k]) + CountEntries(lex, keys \ {k})

\* get size()
size(lex) == CountEntries(lex, DOMAIN lex)

RECURSIVE AddWords(_, _)
\* a chain of addWord calls, one per element of ws = <<word, pos, features, lemma>>,
\* in order (the calls of the first half, then those of the second half)
AddWords(lex, ws) ==
  Strict(lex,
    IF Len(ws) = 0 THEN lex
    ELSE IF Len(ws) = 1 THEN addWord(lex, ws[1][1], ws[1][2], ws[1][3], ws[1][4])
    ELSE LET h == Len(ws) \div 2
         IN AddWords(AddWords(lex, SubSeq(ws, 1, h)), SubSeq(ws, h + 1, Len(ws))))

----------------------------------------------------------------------------
(* EarleyParser: src/src/parser/earley.ts *)

\* a cap ten times the cap of the source
maxTrees_x10 == 100 * 10

\* private maxTrees = 100
maxTrees == 100

\* the dedup key of addItem: `${rule.lhs}->${rule.rhs.join(',')}@${dot}#${start}`
ItemKey(rule, dot, start) ==
  rule.lhs \o "->" \o Join(rule.rhs, ",") \o "@" \o ToString(dot) \o "#" \o ToString(start)

\* the predicate of chart[pos].find(...) in addItem
SameItem(it, rule, dot, start) ==
  /\ it.rule.lhs = rule.lhs
  /\ Len(it.rule.rhs) = Len(rule.rhs)
  /\ \A idx \in 1..Len(it.rule.rhs) : it.rule.rhs[idx] = rule.rhs[idx]
  /\ it.dot = dot
  /\ it.start = start

\* Array.prototype.find(...) ?? null ; null is <<>>, a found item is <<item>>
Find(col, rule, dot, start) ==
  LET hits == {k \in 1..Len(col) : SameItem(col[k], rule, dot, start)}
  IN IF hits = {} THEN <<>>
     ELSE <<col[CHOOSE k \in hits : \A m \in hits : k <= m]>>

\* an addItem that does not record the key of the item it creates
addItem_forgetsKey(st, p, rule, dot, start) ==
  LET key == ItemKey(rule, dot, start)
  IN IF key \in st.chartSet[p + 1]
     THEN [st |-> st, item |-> Find(st.chart[p + 1], rule, dot, start)]
     ELSE LET item == [rule |-> rule, dot |-> dot, start |-> start, id |-> st.nextId]
          IN [st |-> [st EXCEPT !.chart[p + 1] = Append(@, item),
                                !.nextId = @ + 1],
              item |-> <<item>>]

\* an addItem that never finds the key: every insertion creates an item
addItem_always(st, p, rule, dot, start) ==
  LET key == ItemKey(rule, dot, start)
      item == [rule |-> rule, dot |-> dot, start |-> start, id |-> st.nextId]
  IN [st |-> [st EXCEPT !.chartSet[p + 1] = @ \cup {key},
                        !.chart[p + 1] = Append(@, item),
                        !.nextId = @ + 1],
      item |-> <<item>>]

\* The parse-local state st = [chart, chartSet, nextId, edges] that the
\* closure addItem and the edges map share.  Returns the new state and the
\* optional item the closure returns.
addItem(st, p, rule, dot, start) ==
  LET key == ItemKey(rule, dot, start)
  IN IF key \in st.chartSet[p + 1]
     THEN [st |-> st, item |-> Find(st.chart[p + 1], rule, dot, start)]
     ELSE LET item == [rule |-> rule, dot |-> dot, start |-> start, id |-> st.nextId]
          IN [st |-> [st EXCEPT !.chartSet[p + 1] = @ \cup {key},
                                !.chart[p + 1] = Append(@, item),
                                !.nextId = @ + 1],
              item |-> <<item>>]

\* edges.get(id) ?? []
EdgesGet(edgeMap, id) == IF id \in DOMAIN edgeMap THEN edgeMap[id] ELSE <<>>

\* edgeList.push(edge); edges.set(id, edgeList)
EdgesPush(edgeMap, id, edge) ==
  MapSet(edgeMap, id, Append(EdgesGet(edgeMap, id), edge))

\* rule.rhs[dot]; undefined (<<>>) past the end
NextSymbolOf(item) ==
  IF item.dot < Len(item.rule.rhs) THEN <<item.rule.rhs[item.dot + 1]>> ELSE <<>>

RECURSIVE PredictLoop(_, _, _)
\* for (const rule of rules) addItem(pos, rule, 0, pos)
PredictLoop(st, p, rules) ==
  Strict(st,
    IF rules = <<>> THEN st
    ELSE PredictLoop(addItem(st, p, rules[1], 0, p).st, p, Tail(rules)))

predict(st, g, p, symbol) == PredictLoop(st, p, getRulesFor(g, symbol))

\* the body of the for loop of scan without the test entry.pos === expectedPos
ScanEntry_anyPos(st, p, item, word, entry) ==
  LET r == addItem(st, p + 1, item.rule, item.dot + 1, item.start)
  IN IF r.item # <<>>
     THEN [r.st EXCEPT !.edges =
             EdgesPush(@, r.item[1].id,
                       [itemId |-> item.id, children |-> <<>>,
                        terminalWord |-> <<word>>])]
     ELSE r.st

\* a scan that records the word of the lexicon entry, not the token
ScanEntry_entryWord(st, p, item, word, entry) ==
  IF entry.pos = NextSymbolOf(item)[1]
  THEN LET r == addItem(st, p + 1, item.rule, item.dot + 1, item.start)
       IN IF r.item # <<>>
          THEN [r.st EXCEPT !.edges =
                  EdgesPush(@, r.item[1].id,
                            [itemId |-> item.id, children |-> <<>>,
                             terminalWord |-> <<entry.word>>])]
          ELSE r.st
  ELSE st

\* a scan that inserts the advanced item into the column being processed
ScanEntry_sameColumn(st, p, item, word, entry) ==
  IF entry.pos = NextSymbolOf(item)[1]
  THEN LET r == addItem(st, p, item.rule, item.dot + 1, item.start)
       IN IF r.item # <<>>
          THEN [r.st EXCEPT !.edges =
                  EdgesPush(@, r.item[1].id,
                            [itemId |-> item.id, children |-> <<>>,
                             terminalWord |-> <<word>>])]
          ELSE r.st
  ELSE st

\* body of the for loop of scan for one lexicon entry
ScanEntry(st, p, item, word, entry) ==
  IF entry.pos = NextSymbolOf(item)[1]
  THEN LET r == addItem(st, p + 1, item.rule, item.dot + 1, item.start)
       IN IF r.item # <<>>
          THEN [r.st EXCEPT !.edges =
                  EdgesPush(@, r.item[1].id,
                            [itemId |-> item.id, children |-> <<>>,
                             terminalWord |-> <<word>>])]
          ELSE r.st
  ELSE st

\* a loop over the lexicon entries that stops after the first
ScanLoop_firstEntry(st, p, item, word, entries) ==
  IF entries = <<>> THEN st ELSE ScanEntry(st, p, item, word, entries[1])

RECURSIVE ScanLoop(_, _, _, _, _)
\* for (const entry of entries) { ... }
ScanLoop(st, p, item, word, entries) ==
  Strict(st,
    IF entries = <<>> THEN st
    ELSE ScanLoop(ScanEntry(st, p, item, word, entries[1]), p, item, word, Tail(entries)))

\* a scan that lets a word without lexicon entries stand for the expected
\* terminal
scan_unknownMatches(st, lex, p, item, word) ==
  IF NextSymbolOf(item) = <<>> \/ ~isTerminal(NextSymbolOf(item)[1]) THEN st
  ELSE ScanLoop(st, p, item, word,
                IF lookup(lex, word) = <<>>
                THEN <<[word |-> word, pos |-> NextSymbolOf(item)[1],
                        lemma |-> word, features |-> <<>>]>>
                ELSE lookup(lex, word))

scan(st, lex, p, item, word) ==
  IF NextSymbolOf(item) = <<>> \/ ~isTerminal(NextSymbolOf(item)[1]) THEN st
  ELSE ScanLoop(st, p, item, word, lookup(lex, word))

\* the test of the for loop of complete
IsWaitingFor(waitingItem, completedItem) ==
  NextSymbolOf(waitingItem) = <<completedItem.rule.lhs>>

\* a completion whose branch edge names the completed item as the item
\* advanced and the waiting item as its child
CompleteWaiting_swapped(st, p, completedItem, waitingItem) ==
  IF IsWaitingFor(waitingItem, completedItem)
  THEN LET r == addItem(st, p, waitingItem.rule, waitingItem.dot + 1, waitingItem.start)
       IN IF r.item # <<>>
          THEN [r.st EXCEPT !.edges =
                  EdgesPush(@, r.item[1].id,
                            [itemId |-> completedItem.id,
                             children |-> <<waitingItem.id>>,
                             terminalWord |-> <<>>])]
          ELSE r.st
  ELSE st

\* body of the for loop of complete for one waiting item
CompleteWaiting(st, p, completedItem, waitingItem) ==
  IF IsWaitingFor(waitingItem, completedItem)
  THEN LET r == addItem(st, p, waitingItem.rule, waitingItem.dot + 1, waitingItem.start)
       IN IF r.item # <<>>
          THEN [r.st EXCEPT !.edges =
                  EdgesPush(@, r.item[1].id,
                            [itemId |-> waitingItem.id,
                             children |-> <<completedItem.id>>,
                             terminalWord |-> <<>>])]
          ELSE r.st
  ELSE st

RECURSIVE CompleteLoop(_, _, _, _)
\* for (const waitingItem of chart[completedItem.start]): the array iterator
\* re-reads the length at every step, so items pushed onto that column
\* during the loop (completedItem.start = pos) are visited too.  Iterations
\* whose test fails change nothing: the loop goes from one waiting item of
\* the column as it is now, at index k or later, to the next.
CompleteLoop(st, p, completedItem, k) ==
  LET col == st.chart[completedItem.start + 1]
      waiting == {j \in k..Len(col) : IsWaitingFor(col[j], completedItem)}
  IN IF waiting = {} THEN st
     ELSE LET j == CHOOSE m \in waiting : \A n \in waiting : m <= n
          IN CompleteLoop(CompleteWaiting(st, p, completedItem, col[j]),
                          p, completedItem, j + 1)

complete(st, p, completedItem) == CompleteLoop(st, p, completedItem, 1)

----------------------------------------------------------------------------
(* Tree extraction *)

\* itemMap of extractTrees: id -> item over every chart column
\* an itemMap of the items of the last column only
ItemMapOf_lastColumn(ch) ==
  LET items == Range(ch[Len(ch)])
  IN [id \in {it.id : it \in items} |-> CHOOSE it \in items : it.id = id]

ItemMapOf(ch) ==
  LET items == UNION {Range(ch[c]) : c \in 1..Len(ch)}
  IN [id \in {it.id : it \in items} |-> CHOOSE it \in items : it.id = id]

\* the node returned for an item with dot = 0
StartNode(item) ==
  [symbol |-> item.rule.lhs, children |-> <<>>, word |-> <<>>,
   span |-> <<item.start, item.start>>]

\* a leaf edge whose terminal node is placed at the start of the item
TerminalResult_atStart(item, edge, prevNode) ==
  LET terminalNode == [symbol |-> item.rule.rhs[item.dot], children |-> <<>>,
                       word |-> edge.terminalWord,
                       span |-> <<item.start, item.start + 1>>]
  IN [symbol |-> item.rule.lhs,
      children |-> Append(prevNode.children, terminalNode),
      word |-> <<>>,
      span |-> <<item.start, prevNode.span[2] + 1>>]

\* the result pushed for a leaf edge: prevNode extended by the terminal node
TerminalResult(item, edge, prevNode) ==
  LET terminalNode == [symbol |-> item.rule.rhs[item.dot], children |-> <<>>,
                       word |-> edge.terminalWord,
                       span |-> <<prevNode.span[2], prevNode.span[2] + 1>>]
  IN [symbol |-> item.rule.lhs,
      children |-> Append(prevNode.children, terminalNode),
      word |-> <<>>,
      span |-> <<item.start, prevNode.span[2] + 1>>]

\* the result pushed for a branch edge: prevNode extended by childNode
BranchResult(item, prevNode, childNode) ==
  [symbol |-> item.rule.lhs,
   children |-> Append(prevNode.children, childNode),
   word |-> <<>>,
   span |-> <<item.start, childNode.span[2]>>]

\* how many results every iteration of the prevNode loop pushes
PushedPerPrev(edge, childNodes) ==
  IF edge.terminalWord # <<>> THEN 1
  ELSE IF Len(edge.children) > 0 THEN Len(childNodes) ELSE 0

\* the number of prevNodes the loop visits before `results.length >= maxTrees`
\* breaks it (the test follows the pushes, so the first is always visited)
PrevVisited(edge, prevNodes, childNodes, results) ==
  LET c == PushedPerPrev(edge, childNodes)
      stops == {p \in 1..Len(prevNodes) : Len(results) + p * c >= maxTrees}
  IN IF stops = {} THEN Len(prevNodes)
     ELSE CHOOSE p \in stops : \A q \in stops : p <= q

\* for (const prevNode of prevNodes) { ... if (results.length >= maxTrees) break }
\* childNodes is buildNodes(childItem, ...) of a branch edge: the code
\* recomputes it for every prevNode, always from the same arguments.
\* Every iteration pushes PushedPerPrev results, so the k-th pushed result
\* comes from prevNode (k-1) \div c + 1 and childNode (k-1) % c + 1.
PrevLoop(item, edge, prevNodes, childNodes, results) ==
  LET c == PushedPerPrev(edge, childNodes)
      n == PrevVisited(edge, prevNodes, childNodes, results)
  IN results \o
     [k \in 1..(n * c) |->
        LET prevNode == prevNodes[((k - 1) \div c) + 1]
        IN IF edge.terminalWord # <<>>
           THEN TerminalResult(item, edge, prevNode)
           ELSE BranchResult(item, prevNode, childNodes[((k - 1) % c) + 1])]

\* results after the loop body of one edge whose prevItem gave prevNodes
\* and whose child item (branch edge) gave childNodes
EdgeStep(item, edge, prevNodes, childNodes, results) ==
  IF prevNodes = <<>> THEN results
  ELSE PrevLoop(item, edge, prevNodes, childNodes, results)

\* itemMap.get(edge.itemId), as an optional item
PrevItemOf(edge, itemMap) ==
  IF edge.itemId \in DOMAIN itemMap THEN <<itemMap[edge.itemId]>> ELSE <<>>

\* itemMap.get(edge.children[0]) of a branch edge, as an optional item
ChildItemOf(edge, itemMap) ==
  IF edge.terminalWord = <<>> /\ Len(edge.children) > 0
     /\ edge.children[1] \in DOMAIN itemMap
  THEN <<itemMap[edge.children[1]]>> ELSE <<>>

RECURSIVE EdgeLoop(_, _, _, _, _)
\* for (const edge of itemEdges) { ... if (results.length >= maxTrees) break }
\* from the e-th edge on; nodes[e] holds the nodes buildNodes returns for the
\* prevItem and the child item of the e-th edge
EdgeLoop(item, itemEdges, nodes, e, results) ==
  IF e > Len(itemEdges) \/ (e > 1 /\ Len(results) >= maxTrees)
  THEN results
  ELSE EdgeLoop(item, itemEdges, nodes, e + 1,
                EdgeStep(item, itemEdges[e], nodes[e].prev, nodes[e].child, results))

RECURSIVE buildNodes(_, _, _, _)
\* The recursive calls for the items of an edge get the same arguments
\* whatever results holds, so they are evaluated before the loop over the
\* edges; visiting holds item.id during them and not after.
buildNodes(item, edgeMap, itemMap, visiting) ==
  IF item.id \in visiting THEN <<>>
  ELSE IF item.dot = 0 THEN <<StartNode(item)>>
  ELSE LET itemEdges == EdgesGet(edgeMap, item.id)
           nodes == [e \in 1..Len(itemEdges) |->
                      [prev |-> IF PrevItemOf(itemEdges[e], itemMap) = <<>> THEN <<>>
                                ELSE buildNodes(PrevItemOf(itemEdges[e], itemMap)[1],
                                                edgeMap, itemMap, visiting \cup {item.id}),
                       child |-> IF ChildItemOf(itemEdges[e], itemMap) = <<>> THEN <<>>
                                 ELSE buildNodes(ChildItemOf(itemEdges[e], itemMap)[1],
                                                 edgeMap, itemMap, visiting \cup {item.id})]]
       IN Strict(nodes, EdgeLoop(item, itemEdges, nodes, 1, <<>>))

\* the test of extractTrees without item.start === 0
IsFinalItem_anyStart(item) ==
  /\ item.rule.lhs = "S"
  /\ item.dot >= Len(item.rule.rhs)

\* the test of extractTrees for a completed top-level item
IsFinalItem(item) ==
  /\ item.rule.lhs = "S"
  /\ item.dot >= Len(item.rule.rhs)
  /\ item.start = 0

\* for (const node of nodes) { if (trees.length >= maxTrees) break; trees.push(...) }
PushTrees(trees, nodes, item, tokens) ==
  LET room == IF Len(trees) >= maxTrees THEN 0 ELSE maxTrees - Len(trees)
      n == IF Len(nodes) <= room THEN Len(nodes) ELSE room
  IN trees \o [k \in 1..n |-> [root |-> nodes[k], sentence |-> tokens,
                               probability |-> item.rule.probability]]

\* the items of a column passing the test of extractTrees, in column order
FinalItems(col) == SelectSeq(col, IsFinalItem)

RECURSIVE ExtractLoop(_, _, _, _, _)
\* for (const item of chart[finalPos]) if (completed top-level item) { ... }
ExtractLoop(finals, edgeMap, itemMap, tokens, trees) ==
  Strict(trees,
    IF finals = <<>> THEN trees
    ELSE ExtractLoop(Tail(finals), edgeMap, itemMap, tokens,
           PushTrees(trees, buildNodes(finals[1], edgeMap, itemMap, {}), finals[1], tokens)))

extractTrees(ch, edgeMap, tokens) ==
  ExtractLoop(FinalItems(ch[Len(tokens) + 1]), edgeMap, ItemMapOf(ch), tokens, <<>>)

RECURSIVE serializeTree(_)
serializeTree(node) ==
  IF Len(node.children) = 0
  THEN "(" \o node.symbol \o " \"" \o (IF node.word = <<>> THEN "" ELSE node.word[1]) \o "\")"
  ELSE "(" \o node.symbol \o " "
           \o Join([k \in 1..Len(node.children) |-> serializeTree(node.children[k])], " ")
           \o ")"

\* the subsequence of s at the indices idx, in order
AtIndices(s, idx) ==
  [m \in 1..Cardinality(idx) |->
     s[CHOOSE k \in idx : Cardinality({j \in idx : j <= k}) = m]]

\* no deduplication: every extracted tree is kept
deduplicateTrees_keepAll(trees) == trees

\* a deduplication that returns the unique trees sorted by weight, the
\* heaviest first, trees of one weight in their order
deduplicateTrees_byWeight(trees) ==
  LET key == [k \in 1..Len(trees) |-> serializeTree(trees[k].root)]
      unique == AtIndices(trees, {k \in 1..Len(trees) : \A j \in 1..(k - 1) : key[j] # key[k]})
      before(k) == {j \in 1..Len(unique) :
                      \/ unique[j].probability > unique[k].probability
                      \/ unique[j].probability = unique[k].probability /\ j < k}
  IN [m \in 1..Len(unique) |->
        unique[CHOOSE k \in 1..Len(unique) : Cardinality(before(k)) = m - 1]]

\* a tree is pushed to unique when its key was not seen before it:
\* the first occurrence of each serialization, in order
deduplicateTrees(trees) ==
  LET key == [k \in 1..Len(trees) |-> serializeTree(trees[k].root)]
  IN AtIndices(trees, {k \in 1..Len(trees) : \A j \in 1..(k - 1) : key[j] # key[k]})


----------------------------------------------------------------------------
(* Grammars and lexicons the parser is constructed over *)

\* createEnglishGrammar, one definition per group of addRule calls
EnglishSentenceRules ==
  AddRules(NewGrammar, <<
    <<"S", <<"NP", "VP">>, 100>>,
    <<"S", <<"VP">>, 80>>,
    <<"S", <<"NP">>, 50>>,
    <<"S", <<"S", "CONJ", "S">>, 70>> >>)

EnglishNounPhraseRules ==
  AddRules(EnglishSentenceRules, <<
    <<"NP", <<"N">>, 60>>,
    <<"NP", <<"DET", "N">>, 90>>,
    <<"NP", <<"DET", "ADJ", "N">>, 80>>,
    <<"NP", <<"ADJ", "N">>, 50>>,
    <<"NP", <<"NP", "PP">>, 60>>,
    <<"NP", <<"NP", "RC">>, 70>>,
    <<"NP", <<"PN">>, 80>>,
    <<"NP", <<"PN", "N">>, 85>>,
    <<"NP", <<"NP", "CONJ", "NP">>, 60>> >>)

EnglishVerbPhraseRules ==
  AddRules(EnglishNounPhraseRules, <<
    <<"VP", <<"V">>, 70>>,
    <<"VP", <<"V", "NP">>, 90>>,
    <<"VP", <<"V", "NP", "PP">>, 60>>,
    <<"VP", <<"V", "PP">>, 50>>,
    <<"VP", <<"V", "ADV">>, 60>>,
    <<"VP", <<"ADV", "V">>, 50>>,
    <<"VP", <<"V", "NP", "ADV">>, 50>>,
    <<"VP", <<"ADV", "V", "NP">>, 50>>,
    <<"VP", <<"VP", "CONJ", "VP">>, 60>> >>)

createEnglishGrammar ==
  AddRules(EnglishVerbPhraseRules, <<
    <<"ADVP", <<"ADV">>, 80>>,
    <<"ADVP", <<"ADV", "ADV">>, 40>>,
    <<"PP", <<"PREP", "NP">>, 100>>,
    <<"RC", <<"REL", "S">>, 80>>,
    <<"RC", <<"REL", "VP">>, 70>>,
    <<"RC", <<"NP", "VP">>, 60>>,
    <<"RC", <<"S">>, 40>> >>)

\* the lexicon and grammar of the documented scenarios: terminals DET, N, V
ScenarioGrammar ==
  AddRules(NewGrammar, <<
    <<"S", <<"NP", "VP">>, 100>>,
    <<"NP", <<"DET", "N">>, 100>>,
    <<"NP", <<"N">>, 100>>,
    <<"VP", <<"V", "NP">>, 100>>,
    <<"VP", <<"V">>, 100>> >>)

\* binary ambiguity (Catalan many trees) with a left-recursive rule
AmbiguousGrammar ==
  AddRules(NewGrammar, <<
    <<"S", <<"S", "S">>, 100>>,
    <<"S", <<"N">>, 100>>,
    <<"S", <<"V">>, 100>> >>)

\* a non-terminal that derives itself at the same position (S => NP => S)
CyclicGrammar ==
  AddRules(NewGrammar, <<
    <<"S", <<"NP">>, 100>>,
    <<"NP", <<"S">>, 100>>,
    <<"NP", <<"N">>, 100>>,
    <<"S", <<"NP", "VP">>, 100>>,
    <<"VP", <<"V">>, 100>> >>)

\* a rule with an empty right-hand side, predicted twice in one column
EmptyRuleGrammar ==
  AddRules(NewGrammar, <<
    <<"S", <<"NP", "VP">>, 100>>,
    <<"VP", <<"NP", "N">>, 100>>,
    <<"NP", <<>>, 100>>,
    <<"NP", <<"DET">>, 100>> >>)

\* five readings per token and three tokens: 125 distinct trees
WideGrammar ==
  AddRules(NewGrammar, <<
    <<"S", <<"NP", "NP", "NP">>, 100>>,
    <<"S", <<"NP", "NP">>, 100>>,
    <<"S", <<"VP">>, 100>>,
    <<"NP", <<"N">>, 100>>,
    <<"NP", <<"V">>, 100>>,
    <<"NP", <<"PN">>, 100>>,
    <<"NP", <<"ADV">>, 100>>,
    <<"NP", <<"ADJ">>, 100>>,
    <<"VP", <<"V", "V", "V">>, 100>> >>)

\* the same rule added twice, with different weights, and an unused rule
RepeatedRuleGrammar ==
  AddRules(NewGrammar, <<
    <<"S", <<"N">>, 100>>,
    <<"S", <<"N">>, 50>>,
    <<"S", <<"N", "V">>, 100>>,
    <<"PP", <<"PREP", "S">>, 100>> >>)

\* no rule for the start symbol
NoStartGrammar ==
  AddRules(NewGrammar, << <<"NP", <<"N">>, 100>> >>)

None == <<>>

\* createTestLexicon, one definition per group of addWord calls
TestDeterminersAndNouns ==
  AddWords(NewLexicon, <<
    <<"the", "DET", None, None>>,
    <<"a", "DET", None, None>>,
    <<"an", "DET", None, None>>,
    <<"dog", "N", <<[number |-> "singular"]>>, None>>,
    <<"dogs", "N", <<[number |-> "plural"]>>, <<"dog">> >>,
    <<"cat", "N", <<[number |-> "singular"]>>, None>>,
    <<"cats", "N", <<[number |-> "plural"]>>, <<"cat">> >>,
    <<"man", "N", <<[number |-> "singular"]>>, None>>,
    <<"men", "N", <<[number |-> "plural"]>>, <<"man">> >>,
    <<"woman", "N", <<[number |-> "singular"]>>, None>>,
    <<"women", "N", <<[number |-> "plural"]>>, <<"woman">> >>,
    <<"bird", "N", <<[number |-> "singular"]>>, None>>,
    <<"birds", "N", <<[number |-> "plural"]>>, <<"bird">> >>,
    <<"fish", "N", <<[number |-> "singular"]>>, None>>,
    <<"fish", "N", <<[number |-> "plural"]>>, None>> >>)

TestVerbs ==
  AddWords(TestDeterminersAndNouns, <<
    <<"chased", "V", <<[tense |-> "past"]>>, <<"chase">> >>,
    <<"chase", "V", <<[tense |-> "present"]>>, None>>,
    <<"chases", "V", <<[tense |-> "present", number |-> "singular", person |-> 3]>>, <<"chase">> >>,
    <<"bit", "V", <<[tense |-> "past"]>>, <<"bite">> >>,
    <<"bite", "V", <<[tense |-> "present"]>>, None>>,
    <<"bites", "V", <<[tense |-> "present", number |-> "singular", person |-> 3]>>, <<"bite">> >>,
    <<"ran", "V", <<[tense |-> "past"]>>, <<"run">> >>,
    <<"run", "V", <<[tense |-> "present"]>>, None>>,
    <<"runs", "V", <<[tense |-> "present", number |-> "singular", person |-> 3]>>, <<"run">> >>,
    <<"saw", "V", <<[tense |-> "past"]>>, <<"see">> >>,
    <<"see", "V", <<[tense |-> "present"]>>, None>>,
    <<"sees", "V", <<[tense |-> "present", number |-> "singular", person |-> 3]>>, <<"see">> >>,
    <<"ate", "V", <<[tense |-> "past"]>>, <<"eat">> >>,
    <<"eat", "V", <<[tense |-> "present"]>>, None>>,
    <<"eats", "V", <<[tense |-> "present", number |-> "singular", person |-> 3]>>, <<"eat">> >> >>)

TestAdjectivesToPrepositions ==
  AddWords(TestVerbs, <<
    <<"big", "ADJ", None, None>>,
    <<"small", "ADJ", None, None>>,
    <<"fast", "ADJ", None, None>>,
    <<"slow", "ADJ", None, None>>,
    <<"quickly", "ADV", None, None>>,
    <<"slowly", "ADV", None, None>>,
    <<"away", "ADV", None, None>>,
    <<"in", "PREP", None, None>>,
    <<"on", "PREP", None, None>>,
    <<"with", "PREP", None, None>>,
    <<"to", "PREP", None, None>>,
    <<"from", "PREP", None, None>> >>)

createTestLexicon ==
  AddWords(TestAdjectivesToPrepositions, <<
    <<"who", "REL", None, None>>,
    <<"whom", "REL", None, None>>,
    <<"that", "REL", None, None>>,
    <<"which", "REL", None, None>>,
    <<"and", "CONJ", None, None>>,
    <<"or", "CONJ", None, None>> >>)

\* a buffalo lexicon without the verb readings
createBuffaloLexicon_noVerbs ==
  AddWords(NewLexicon, <<
    <<"Buffalo", "PN", None, <<"buffalo">> >>,
    <<"buffalo", "N", <<[number |-> "plural"]>>, None>>,
    <<"buffalo", "N", <<[number |-> "singular"]>>, None>>,
    <<"buffalo", "ADV", None, None>> >>)

createBuffaloLexicon ==
  AddWords(NewLexicon, <<
    <<"Buffalo", "PN", None, <<"buffalo">> >>,
    <<"buffalo", "N", <<[number |-> "plural"]>>, None>>,
    <<"buffalo", "N", <<[number |-> "singular"]>>, None>>,
    <<"buffalo", "V", <<[tense |-> "present", number |-> "plural"]>>, None>>,
    <<"buffalo", "V", <<[tense |-> "present", number |-> "singular", person |-> 1]>>, None>>,
    <<"buffalo", "V", <<[tense |-> "present", number |-> "singular", person |-> 2]>>, None>>,
    <<"buffalo", "ADV", None, None>> >>)

\* one reading per part of speech, no repeated entry
PlainLexicon ==
  AddWords(NewLexicon, <<
    <<"buffalo", "N", None, None>>,
    <<"buffalo", "V", None, None>>,
    <<"buffalo", "PN", None, None>>,
    <<"buffalo", "ADV", None, None>>,
    <<"buffalo", "ADJ", None, None>>,
    <<"the", "DET", None, None>>,
    <<"dog", "N", None, None>> >>)

----------------------------------------------------------------------------
(* The parsers constructed (grammar, lexicon) and the tokens callers pass *)

Setups ==
  { [g |-> ScenarioGrammar, l |-> createTestLexicon,
     words |-> {"the", "dog", "chased", "zzz"},
     extra |-> { <<"the", "dog", "chased", "the", "cat">> }],
    [g |-> createEnglishGrammar, l |-> createTestLexicon,
     words |-> {"The", "dog", "ran"},
     extra |-> {}],
    [g |-> createEnglishGrammar, l |-> createBuffaloLexicon,
     words |-> {"buffalo", "Buffalo"},
     extra |-> {}],
    [g |-> AmbiguousGrammar, l |-> PlainLexicon,
     words |-> {"buffalo", "dog"},
     extra |-> { <<"dog", "dog", "dog", "dog">> }],
    [g |-> CyclicGrammar, l |-> PlainLexicon,
     words |-> {"buffalo", "the"},
     extra |-> {}],
    [g |-> EmptyRuleGrammar, l |-> PlainLexicon,
     words |-> {"dog", "the"},
     extra |-> {}],
    [g |-> WideGrammar, l |-> PlainLexicon,
     words |-> {"buffalo", "dog"},
     extra |-> {}],
    [g |-> WideGrammar, l |-> createBuffaloLexicon,
     words |-> {"buffalo"},
     extra |-> {}],
    [g |-> RepeatedRuleGrammar, l |-> createBuffaloLexicon,
     words |-> {"buffalo", "Buffalo"},
     extra |-> {}],
    [g |-> NoStartGrammar, l |-> PlainLexicon,
     words |-> {"dog"},
     extra |-> {}] }

\* the token sequences a caller of this parser passes
InputsOf(g, l) ==
  UNION {SeqsUpTo(s.words, MaxLen) \cup s.extra : s \in {t \in Setups : t.g = g /\ t.l = l}}

----------------------------------------------------------------------------
(* State machine: one EarleyParser instance, parse called again and again *)

Init ==
  /\ \E s \in Setups : grammar = s.g /\ lexicon = s.l
  /\ input = <<>>
  /\ pc = "idle"
  /\ chart = <<>>
  /\ chartSet = <<>>
  /\ nextId = 0
  /\ edges = <<>>
  /\ pos = 0
  /\ i = 0
  /\ result = <<>>
  /\ seen = <<>>

\* the parse-local state as one record
LocalState == [chart |-> chart, chartSet |-> chartSet, nextId |-> nextId, edges |-> edges]

SetLocal(st) ==
  /\ chart' = st.chart
  /\ chartSet' = st.chartSet
  /\ nextId' = st.nextId
  /\ edges' = st.edges

\* seen is the caller's record of a result it was returned earlier:
\* <<>> or <<[result, between]>>, between telling that a call with other
\* tokens was made since.  The parser never reads it.
Noted(s, tokens) ==
  IF s = <<>> THEN s
  ELSE <<[s[1] EXCEPT !.between = @ \/ tokens # s[1].result.input]>>

\* an empty call that falls through to the chart: one column is allocated
\* and the search of it finds nothing
ParseEmpty_allocates ==
  /\ pc \in {"idle", "done"}
  /\ input' = <<>>
  /\ result' = <<[input |-> <<>>, trees |-> <<>>, errors |-> << <<"No valid parse found">> >>]>>
  /\ pc' = "done"
  /\ chart' = << <<>> >> /\ chartSet' = << {} >> /\ nextId' = 0 /\ edges' = <<>>
  /\ pos' = 0 /\ i' = 0
  /\ seen' = Noted(seen, <<>>)
  /\ UNCHANGED <<grammar, lexicon>>

\* parse(input), input.length === 0: returns at once
ParseEmpty ==
  /\ pc \in {"idle", "done"}
  /\ input' = <<>>
  /\ result' = <<[input |-> <<>>, trees |-> <<>>, errors |-> << <<"Empty input">> >>]>>
  /\ pc' = "done"
  /\ chart' = <<>> /\ chartSet' = <<>> /\ nextId' = 0 /\ edges' = <<>>
  /\ pos' = 0 /\ i' = 0
  /\ seen' = Noted(seen, <<>>)
  /\ UNCHANGED <<grammar, lexicon>>

\* a call that keeps the key sets of the call before it when the column
\* count is the same
ParseStart_staleSet(tokens) ==
  /\ pc \in {"idle", "done"}
  /\ tokens # <<>>
  /\ input' = tokens
  /\ LET fresh == [chart |-> [k \in 1..(Len(tokens) + 1) |-> <<>>],
                   chartSet |-> IF Len(chartSet) = Len(tokens) + 1 THEN chartSet
                                ELSE [k \in 1..(Len(tokens) + 1) |-> {}],
                   nextId |-> 0,
                   edges |-> <<>>]
     IN SetLocal(PredictLoop(fresh, 0, getRulesFor(grammar, "S")))
  /\ pos' = 0 /\ i' = 0
  /\ pc' = "chart"
  /\ result' = <<>>
  /\ seen' = Noted(seen, tokens)
  /\ UNCHANGED <<grammar, lexicon>>

\* parse(input), input.length > 0: fresh chart, chartSet, nextId, edges; the
\* start-symbol rules are added to column 0; the column loop starts
ParseStart(tokens) ==
  /\ pc \in {"idle", "done"}
  /\ tokens # <<>>
  /\ input' = tokens
  /\ LET fresh == [chart |-> [k \in 1..(Len(tokens) + 1) |-> <<>>],
                   chartSet |-> [k \in 1..(Len(tokens) + 1) |-> {}],
                   nextId |-> 0,
                   edges |-> <<>>]
     IN SetLocal(PredictLoop(fresh, 0, getRulesFor(grammar, "S")))
  /\ pos' = 0 /\ i' = 0
  /\ pc' = "chart"
  /\ result' = <<>>
  /\ seen' = Noted(seen, tokens)
  /\ UNCHANGED <<grammar, lexicon>>

\* the item the while loop is at
CurrentItem == chart[pos + 1][i + 1]

InLoop == pc = "chart" /\ pos <= Len(input) /\ i < Len(chart[pos + 1])

\* item.dot >= item.rule.rhs.length
Completion ==
  /\ InLoop
  /\ CurrentItem.dot >= Len(CurrentItem.rule.rhs)
  /\ SetLocal(complete(LocalState, pos, CurrentItem))
  /\ i' = i + 1
  /\ UNCHANGED <<grammar, lexicon, input, pc, pos, result, seen>>

\* nextSymbol && isNonTerminal(nextSymbol)
Prediction ==
  /\ InLoop
  /\ CurrentItem.dot < Len(CurrentItem.rule.rhs)
  /\ isNonTerminal(NextSymbolOf(CurrentItem)[1])
  /\ SetLocal(predict(LocalState, grammar, pos, NextSymbolOf(CurrentItem)[1]))
  /\ i' = i + 1
  /\ UNCHANGED <<grammar, lexicon, input, pc, pos, result, seen>>

\* a scanning step that enters a word the lexicon does not have under the
\* expected part of speech
Scanning_learns ==
  /\ InLoop
  /\ CurrentItem.dot < Len(CurrentItem.rule.rhs)
  /\ ~isNonTerminal(NextSymbolOf(CurrentItem)[1])
  /\ pos < Len(input)
  /\ SetLocal(scan(LocalState, lexicon, pos, CurrentItem, input[pos + 1]))
  /\ lexicon' = IF has(lexicon, input[pos + 1]) THEN lexicon
                ELSE addWord(lexicon, input[pos + 1], NextSymbolOf(CurrentItem)[1], None, None)
  /\ i' = i + 1
  /\ UNCHANGED <<grammar, input, pc, pos, result, seen>>

\* nextSymbol && pos < input.length
Scanning ==
  /\ InLoop
  /\ CurrentItem.dot < Len(CurrentItem.rule.rhs)
  /\ ~isNonTerminal(NextSymbolOf(CurrentItem)[1])
  /\ pos < Len(input)
  /\ SetLocal(scan(LocalState, lexicon, pos, CurrentItem, input[pos + 1]))
  /\ i' = i + 1
  /\ UNCHANGED <<grammar, lexicon, input, pc, pos, result, seen>>

\* a terminal expected in the last column: no branch taken, i++
PassOver ==
  /\ InLoop
  /\ CurrentItem.dot < Len(CurrentItem.rule.rhs)
  /\ ~isNonTerminal(NextSymbolOf(CurrentItem)[1])
  /\ pos >= Len(input)
  /\ i' = i + 1
  /\ UNCHANGED <<grammar, lexicon, input, pc, chart, chartSet, nextId, edges, pos,
                 result, seen>>

\* a column loop that leaves a column after its second item
NextColumn_early ==
  /\ pc = "chart"
  /\ i >= Len(chart[pos + 1]) \/ i >= 2
  /\ pos < Len(input)
  /\ pos' = pos + 1
  /\ i' = 0
  /\ UNCHANGED <<grammar, lexicon, input, pc, chart, chartSet, nextId, edges,
                 result, seen>>

\* the while loop of a column ends; pos++
NextColumn ==
  /\ pc = "chart"
  /\ i >= Len(chart[pos + 1])
  /\ pos < Len(input)
  /\ pos' = pos + 1
  /\ i' = 0
  /\ UNCHANGED <<grammar, lexicon, input, pc, chart, chartSet, nextId, edges,
                 result, seen>>

\* a result object whose errors are never set
ParseResultOf_noErrors(tokens, uniqueTrees) ==
  [input |-> tokens,
   trees |-> Slice0(uniqueTrees, maxTrees),
   errors |-> <<>>]

\* the result object of a non-empty parse
ParseResultOf(tokens, uniqueTrees) ==
  [input |-> tokens,
   trees |-> Slice0(uniqueTrees, maxTrees),
   errors |-> IF Len(uniqueTrees) = 0 THEN << <<"No valid parse found">> >> ELSE <<>>]

\* the column loop ends: extract, deduplicate, return
ParseReturn ==
  /\ pc = "chart"
  /\ i >= Len(chart[pos + 1])
  /\ pos >= Len(input)
  /\ LET trees == extractTrees(chart, edges, input)
     IN result' = Strict(trees, <<ParseResultOf(input, deduplicateTrees(trees))>>)
  /\ pc' = "done"
  /\ UNCHANGED <<grammar, lexicon, input, chart, chartSet, nextId, edges, pos, i, seen>>

Next ==
  \/ ParseEmpty
  \/ \E tokens \in InputsOf(grammar, lexicon) : ParseStart(tokens)
  \/ Completion
  \/ Prediction
  \/ Scanning
  \/ PassOver
  \/ NextColumn
  \/ ParseReturn

Spec == Init /\ [][Next]_vars

----------------------------------------------------------------------------
(* Observations of a finished call *)

Returned == pc = "done" /\ result # <<>>

\* result.trees of the call that returned last
ResultTrees == result[1].trees

\* the canonical serializations of a list of trees, in order
KeysOf(trees) == [k \in 1..Len(trees) |-> serializeTree(trees[k].root)]

\* every node of a tree
RECURSIVE NodesOf(_)
NodesOf(node) ==
  {node} \cup UNION {NodesOf(node.children[k]) : k \in 1..Len(node.children)}

----------------------------------------------------------------------------
(* Reference semantics of the grammar and lexicon: what derives what.       *)
(* Independent of the chart: a least fixed point over (symbol, from, to).   *)

\* terminal t derives the single token at position k (0-based)
TokenHasPos(lex, tokens, k, t) ==
  \E n \in 1..Len(lookup(lex, tokens[k + 1])) : lookup(lex, tokens[k + 1])[n].pos = t

RhsSymbols(g) == UNION {Range(g.rules[n].rhs) : n \in 1..Len(g.rules)}

TerminalsOf(g) == {x \in RhsSymbols(g) : isTerminal(x)}

LhsSymbols(g) == {g.rules[n].lhs : n \in 1..Len(g.rules)}

BaseFacts(g, lex, tokens) ==
  {f \in TerminalsOf(g) \X (0..(Len(tokens) - 1)) \X (1..Len(tokens)) :
     f[3] = f[2] + 1 /\ TokenHasPos(lex, tokens, f[2], f[1])}

RECURSIVE RhsDerives(_, _, _, _)
\* the symbols rhs derive tokens[a..b) by the facts F
RhsDerives(rhs, a, b, F) ==
  IF rhs = <<>> THEN a = b
  ELSE \E m \in a..b : <<rhs[1], a, m>> \in F /\ RhsDerives(Tail(rhs), m, b, F)

\* F and every (lhs, a, b) that one rule derives from the facts F
DeriveStep(g, n, F) ==
  F \cup UNION {
       {<<g.rules[r].lhs, p[1], p[2]>> :
          p \in {q \in (0..n) \X (0..n) :
                   q[1] <= q[2] /\ RhsDerives(g.rules[r].rhs, q[1], q[2], F)}} :
       r \in 1..Len(g.rules)}

RECURSIVE DeriveClosure(_, _, _)
DeriveClosure(g, n, F) ==
  LET G == DeriveStep(g, n, F) IN IF G = F THEN F ELSE DeriveClosure(g, n, G)

\* all (symbol, from, to) such that symbol derives tokens[from..to)
Derivable(g, lex, tokens) == DeriveClosure(g, Len(tokens), BaseFacts(g, lex, tokens))

\* tokens has a derivation from the start symbol
HasDerivation(g, lex, tokens) ==
  <<startSymbol, 0, Len(tokens)>> \in Derivable(g, lex, tokens)

\* no rule has an empty right-hand side
EpsilonFree(g) == \A r \in 1..Len(g.rules) : g.rules[r].rhs # <<>>

\* A reaches B by a chain of one or more unit rules
UnitStep(g, R) ==
  R \cup {p \in LhsSymbols(g) \X LhsSymbols(g) :
            \E r \in 1..Len(g.rules) :
              /\ Len(g.rules[r].rhs) = 1
              /\ \/ (g.rules[r].lhs = p[1] /\ g.rules[r].rhs[1] = p[2])
                 \/ (<<p[1], g.rules[r].lhs>> \in R /\ g.rules[r].rhs[1] = p[2])}

RECURSIVE UnitClosure(_, _)
UnitClosure(g, R) ==
  LET Q == UnitStep(g, R) IN IF Q = R THEN R ELSE UnitClosure(g, Q)

\* no symbol derives itself through unit rules alone
UnitAcyclic(g) == \A A \in LhsSymbols(g) : <<A, A>> \notin UnitClosure(g, {})

\* the grammar gives every input finitely many parse trees
FinitelyAmbiguous(g) == EpsilonFree(g) /\ UnitAcyclic(g)

RECURSIVE RefChildren(_, _, _, _, _)
\* the child lists by which the symbols rhs derive tokens[a..b), the trees
\* of every fact taken from T
RefChildren(rhs, a, b, F, T) ==
  IF rhs = <<>> THEN (IF a = b THEN {<<>>} ELSE {})
  ELSE UNION {
         {<<t>> \o rest : t \in T[<<rhs[1], a, m>>],
                          rest \in RefChildren(Tail(rhs), m, b, F, T)} :
         m \in {k \in a..b : <<rhs[1], a, k>> \in F}}

\* the trees of every fact, built by one rule application from the trees T
RefStep(g, tokens, F, T) ==
  [f \in F |->
     IF isTerminal(f[1])
     THEN {[symbol |-> f[1], children |-> <<>>, word |-> <<tokens[f[2] + 1]>>,
            span |-> <<f[2], f[3]>>]}
     ELSE UNION {
            {[symbol |-> f[1], children |-> cs, word |-> <<>>, span |-> <<f[2], f[3]>>] :
               cs \in RefChildren(g.rules[r].rhs, f[2], f[3], F, T)} :
            r \in {q \in 1..Len(g.rules) : g.rules[q].lhs = f[1]}}]

RECURSIVE RefClosure(_, _, _, _)
\* the least fixed point of RefStep; reached when the grammar is finitely
\* ambiguous
RefClosure(g, tokens, F, T) ==
  LET U == RefStep(g, tokens, F, T)
  IN IF U = T THEN T ELSE RefClosure(g, tokens, F, U)

\* all derivation trees of the start symbol over the whole input
RefTrees(g, lex, tokens) ==
  LET F == Derivable(g, lex, tokens)
  IN IF <<startSymbol, 0, Len(tokens)>> \notin F THEN {}
     ELSE RefClosure(g, tokens, F, [f \in F |-> {}])[<<startSymbol, 0, Len(tokens)>>]

\* the canonical serializations of all distinct parse trees of tokens
RefTreeKeys(g, lex, tokens) == {serializeTree(t) : t \in RefTrees(g, lex, tokens)}

----------------------------------------------------------------------------
(* Empty input *)

\* C9: a call with an empty token list returns zero trees and the errors
\* ['Empty input'], and it returns before any chart column, item, id or
\* edge is created.
EmptyInput ==
  (pc = "done" /\ input = <<>>) =>
     /\ result = <<[input |-> <<>>, trees |-> <<>>, errors |-> << <<"Empty input">> >>]>>
     /\ chart = <<>>
     /\ chartSet = <<>>
     /\ nextId = 0
     /\ edges = <<>>

\* an empty call has returned
EmptyInputReturned == pc = "done" /\ input = <<>> /\ result # <<>>

----------------------------------------------------------------------------
(* The result of a non-empty call *)

\* every item of the chart starts at a column of the chart, so the column
\* chart[completedItem.start] that complete iterates exists
StartsInChart ==
  \A c \in 1..Len(chart) : \A k \in 1..Len(chart[c]) :
    chart[c][k].start \in 0..(c - 1)

\* C10: a call with a non-empty token list runs to its return without a
\* fault; its errors are ['No valid parse found'] exactly when its trees are
\* empty, and are undefined otherwise.
ErrorsIffNoTrees ==
  /\ (pc = "chart" => (Len(chart) = Len(input) + 1 /\ pos <= Len(input) /\ StartsInChart))
  /\ (pc = "done" /\ input # <<>>) =>
       /\ result # <<>>
       /\ result[1].input = input
       /\ (result[1].errors = << <<"No valid parse found">> >>) <=> (result[1].trees = <<>>)
       /\ (result[1].trees # <<>>) => (result[1].errors = <<>>)

\* a non-empty call has returned without trees, with its error
NoParseReturned ==
  /\ pc = "done" /\ input # <<>> /\ result # <<>>
  /\ result[1].trees = <<>>
  /\ result[1].errors = << <<"No valid parse found">> >>

\* a non-empty call has returned trees
TreesReturned ==
  pc = "done" /\ input # <<>> /\ result # <<>> /\ Len(result[1].trees) >= 1

----------------------------------------------------------------------------
(* Shape of the returned trees *)

\* C3: every returned tree has the root symbol S, the root span [0, N) for
\* N input tokens, and sentence equal to the input.
RootIsStartOverInput ==
  Returned =>
    \A k \in 1..Len(ResultTrees) :
      /\ ResultTrees[k].root.symbol = "S"
      /\ ResultTrees[k].root.span = <<0, Len(input)>>
      /\ ResultTrees[k].sentence = input

\* several trees are returned for an input of two or more tokens, and a
\* completed S item of the last column does not start at 0
SeveralRootsReturned ==
  /\ Returned /\ Len(input) >= 2 /\ Len(ResultTrees) >= 2
  /\ \E k \in 1..Len(chart[Len(input) + 1]) :
       LET it == chart[Len(input) + 1][k]
       IN it.rule.lhs = "S" /\ it.dot >= Len(it.rule.rhs) /\ it.start > 0

\* a node is a step of a derivation: a word with a lexicon entry of the
\* node's symbol, or a rule of the grammar from the node's symbol to its
\* children's symbols
ValidNode(g, lex, node) ==
  IF node.word # <<>>
  THEN /\ node.children = <<>>
       /\ \E n \in 1..Len(lookup(lex, node.word[1])) :
            lookup(lex, node.word[1])[n].pos = node.symbol
  ELSE \E r \in 1..Len(g.rules) :
         /\ g.rules[r].lhs = node.symbol
         /\ g.rules[r].rhs = [c \in 1..Len(node.children) |-> node.children[c].symbol]

\* C4 (soundness): in every returned tree, every internal node's symbol and
\* children's symbols are a rule of the grammar, and every leaf's word has a
\* lexicon entry whose part of speech is the leaf's symbol.
Soundness ==
  Returned =>
    \A k \in 1..Len(ResultTrees) :
      \A node \in NodesOf(ResultTrees[k].root) : ValidNode(grammar, lexicon, node)

\* a tree is returned with a leaf whose word has entries of several parts
\* of speech
AmbiguousWordParsed ==
  /\ Returned
  /\ \E k \in 1..Len(ResultTrees) :
       \E node \in NodesOf(ResultTrees[k].root) :
         /\ node.word # <<>>
         /\ \E n \in 1..Len(lookup(lexicon, node.word[1])) :
              lookup(lexicon, node.word[1])[n].pos # node.symbol

\* the span of a node is the concatenation of its children's spans
SpansConcatenate(node) ==
  IF node.children = <<>>
  THEN IF node.word # <<>> THEN node.span[2] = node.span[1] + 1
       ELSE node.span[2] = node.span[1]
  ELSE /\ node.children[1].span[1] = node.span[1]
       /\ node.children[Len(node.children)].span[2] = node.span[2]
       /\ \A c \in 1..(Len(node.children) - 1) :
            node.children[c].span[2] = node.children[c + 1].span[1]

\* C5 (span integrity): in every returned tree, every node's span is the
\* concatenation of its children's spans, and every leaf's span has width 1.
SpanIntegrity ==
  Returned =>
    \A k \in 1..Len(ResultTrees) :
      \A node \in NodesOf(ResultTrees[k].root) :
        /\ node.span[1] <= node.span[2]
        /\ SpansConcatenate(node)

\* a tree is returned with a node of two or more children that follows a
\* word
LaterBranchReturned ==
  /\ Returned
  /\ \E k \in 1..Len(ResultTrees) :
       \E node \in NodesOf(ResultTrees[k].root) :
         Len(node.children) >= 2 /\ node.span[1] >= 1 /\ node.children[2].word # <<>>

----------------------------------------------------------------------------
(* The list of returned trees *)

\* C6 (uniqueness): no two returned trees have the same canonical
\* serialization, also when the lexicon has several entries of one part of
\* speech for a word.
Uniqueness ==
  Returned =>
    \A j, k \in 1..Len(ResultTrees) :
      j # k => serializeTree(ResultTrees[j].root) # serializeTree(ResultTrees[k].root)

\* extraction yielded trees of equal serialization, and two or more trees
\* are returned
DuplicatesRemoved ==
  /\ Returned /\ input # <<>> /\ Len(ResultTrees) >= 2
  /\ LET raw == extractTrees(chart, edges, input)
     IN \E j, k \in 1..Len(raw) :
          j < k /\ serializeTree(raw[j].root) = serializeTree(raw[k].root)

\* C7 (boundedness): a call never returns more than 100 trees.
Boundedness == Returned => Len(ResultTrees) <= 100

\* a call returned 100 trees for an input with more than 100 distinct trees
CapReached ==
  /\ Returned /\ Len(ResultTrees) = 100
  /\ FinitelyAmbiguous(grammar)
  /\ Cardinality(RefTreeKeys(grammar, lexicon, input)) > 100

----------------------------------------------------------------------------
(* Repeated calls: the caller keeps a result and calls again *)

\* the parsers whose calls are compared
RepeatSetups ==
  {s \in Setups : s.g \in {AmbiguousGrammar, CyclicGrammar, RepeatedRuleGrammar}}

InitRepeat ==
  /\ Init
  /\ \E s \in RepeatSetups : grammar = s.g /\ lexicon = s.l

\* the caller keeps the result of the call that returned
Keep ==
  /\ pc = "done"
  /\ result # <<>>
  /\ seen' = <<[result |-> result[1], between |-> FALSE]>>
  /\ UNCHANGED <<grammar, lexicon, input, pc, chart, chartSet, nextId, edges, pos, i,
                 result>>

NextRepeat == Next \/ Keep

SpecRepeat == InitRepeat /\ [][NextRepeat]_vars

\* C8 (determinism): a call with the tokens of an earlier call of the same
\* parser returns trees of the same canonical serializations in the same
\* order, whatever calls were made before or between the two.
Determinism ==
  (Returned /\ seen # <<>> /\ seen[1].result.input = input) =>
     KeysOf(ResultTrees) = KeysOf(seen[1].result.trees)

\* a call returned two or more trees for the tokens of a kept result, after
\* a call with other tokens in between
RepeatedAfterOther ==
  /\ Returned /\ seen # <<>>
  /\ seen[1].result.input = input
  /\ seen[1].between
  /\ Len(ResultTrees) >= 2

----------------------------------------------------------------------------
(* The returned trees against the derivations of the grammar *)

\* C1 (completeness): when N >= 1 tokens have at least one derivation from
\* S under the grammar and the lexicon, the call returns at least one tree
\* with root symbol S and span [0, N).
Completeness ==
  (Returned /\ input # <<>> /\ HasDerivation(grammar, lexicon, input)) =>
     \E k \in 1..Len(ResultTrees) :
       /\ ResultTrees[k].root.symbol = "S"
       /\ ResultTrees[k].root.span = <<0, Len(input)>>

\* completeness for the grammars without a rule of empty right-hand side
CompletenessWithoutEmptyRules ==
  (Returned /\ input # <<>> /\ EpsilonFree(grammar)
     /\ HasDerivation(grammar, lexicon, input)) =>
     \E k \in 1..Len(ResultTrees) :
       /\ ResultTrees[k].root.symbol = "S"
       /\ ResultTrees[k].root.span = <<0, Len(input)>>

\* C2: when the distinct parse trees of the input are 100 or fewer, every
\* one of them appears exactly once in the returned trees.  Stated for the
\* grammars that give every input finitely many trees.
EveryDistinctTreeOnce ==
  (Returned /\ input # <<>> /\ FinitelyAmbiguous(grammar)
     /\ Cardinality(RefTreeKeys(grammar, lexicon, input)) <= 100) =>
     /\ Range(KeysOf(ResultTrees)) = RefTreeKeys(grammar, lexicon, input)
     /\ Len(ResultTrees) = Cardinality(RefTreeKeys(grammar, lexicon, input))

\* the same for the lexicons with one entry per word and part of speech
EveryDistinctTreeOnceSingleEntries ==
  (Returned /\ input # <<>> /\ FinitelyAmbiguous(grammar)
     /\ \A w \in Range(input) : \A m, n \in 1..Len(lookup(lexicon, w)) :
          m # n => lookup(lexicon, w)[m].pos # lookup(lexicon, w)[n].pos
     /\ Cardinality(RefTreeKeys(grammar, lexicon, input)) <= 100) =>
     /\ Range(KeysOf(ResultTrees)) = RefTreeKeys(grammar, lexicon, input)
     /\ Len(ResultTrees) = Cardinality(RefTreeKeys(grammar, lexicon, input))

----------------------------------------------------------------------------
(* Lexical gaps *)

\* the terminals the items of column k (0-based) expect next
ExpectedAt(k) ==
  {NextSymbolOf(chart[k + 1][n])[1] :
     n \in {m \in 1..Len(chart[k + 1]) :
              /\ NextSymbolOf(chart[k + 1][m]) # <<>>
              /\ isTerminal(NextSymbolOf(chart[k + 1][m])[1])}}

\* the token at position k has no lexicon entry of a part of speech that
\* the grammar expects there
LexicalGapAt(k) ==
  \A t \in ExpectedAt(k) : ~TokenHasPos(lexicon, input, k, t)

\* C11 (lexical gap): when some token of a non-empty input has no lexicon
\* entry of a part of speech the grammar expects at its position, as when
\* its lookup is empty, the call returns zero trees and the error
\* 'No valid parse found'.
LexicalGap ==
  (Returned /\ input # <<>> /\ \E k \in 0..(Len(input) - 1) : LexicalGapAt(k)) =>
     /\ ResultTrees = <<>>
     /\ result[1].errors = << <<"No valid parse found">> >>

\* a call returned for an input whose first token was scanned and one of
\* whose later tokens has no lexicon entry at all
UnknownWordReturned ==
  /\ Returned /\ Len(input) >= 2
  /\ Len(chart[2]) >= 1
  /\ \E k \in 1..(Len(input) - 1) :
       lookup(lexicon, input[k + 1]) = <<>> /\ ExpectedAt(k) # {} /\ LexicalGapAt(k)

----------------------------------------------------------------------------
(* Leaves *)

RECURSIVE Concat(_)
\* the concatenation of a sequence of sequences
Concat(ss) == IF ss = <<>> THEN <<>> ELSE ss[1] \o Concat(Tail(ss))

RECURSIVE Leaves(_)
\* the leaves of a tree, left to right: the nodes without children that
\* carry a word
Leaves(node) ==
  IF node.children = <<>>
  THEN IF node.word # <<>> THEN <<node>> ELSE <<>>
  ELSE Concat([c \in 1..Len(node.children) |-> Leaves(node.children[c])])

\* C12: the leaves of every returned tree, read left to right, are exactly
\* the input tokens in order: the i-th leaf (counted from 0) has span
\* [i, i+1) and its word is input[i] as the caller gave it.
LeavesAreInput ==
  Returned =>
    \A k \in 1..Len(ResultTrees) :
      LET leaves == Leaves(ResultTrees[k].root)
      IN /\ Len(leaves) = Len(input)
         /\ \A n \in 1..Len(leaves) :
              /\ leaves[n].span = <<n - 1, n>>
              /\ leaves[n].word = <<input[n]>>

\* a tree is returned for tokens that differ in case from the words of the
\* lexicon entries they matched
CapitalisedTokenParsed ==
  /\ Returned /\ ResultTrees # <<>>
  /\ Len(input) >= 2
  /\ \E n \in 1..Len(input) :
       /\ toLowerCase(input[n]) # input[n]
       /\ \A e \in Range(lookup(lexicon, input[n])) : e.word # input[n]

----------------------------------------------------------------------------
(* Node shape *)

\* a node has a word exactly when it has no children
WordIffNoChildren(node) == (node.word # <<>>) <=> (node.children = <<>>)

\* C13 (node shape): in every returned tree, a node has a word exactly when
\* it has no children: leaf nodes have no children and a word, internal
\* nodes have at least one child and no word.
NodeShape ==
  Returned =>
    \A k \in 1..Len(ResultTrees) :
      \A node \in NodesOf(ResultTrees[k].root) : WordIffNoChildren(node)

\* the same, for the grammars without a rule of empty right-hand side
NodeShapeWithoutEmptyRules ==
  (Returned /\ EpsilonFree(grammar)) =>
    \A k \in 1..Len(ResultTrees) :
      \A node \in NodesOf(ResultTrees[k].root) : WordIffNoChildren(node)

----------------------------------------------------------------------------
(* The buffalo sentences: createEnglishGrammar with createBuffaloLexicon *)

\* the numbers of tokens of the sentences
BuffaloLengths == {2, 3, 4, 5, 8}

\* n tokens 'buffalo'
BuffaloSentence(n) == [k \in 1..n |-> "buffalo"]

InitBuffalo ==
  /\ Init
  /\ grammar = createEnglishGrammar
  /\ lexicon = createBuffaloLexicon

NextBuffalo ==
  \/ \E n \in BuffaloLengths : ParseStart(BuffaloSentence(n))
  \/ Completion
  \/ Prediction
  \/ Scanning
  \/ PassOver
  \/ NextColumn
  \/ ParseReturn

SpecBuffalo == InitBuffalo /\ [][NextBuffalo]_vars

\* some node of the tree has the symbol
RECURSIVE ContainsSymbol(_, _)
ContainsSymbol(node, symbol) ==
  \/ node.symbol = symbol
  \/ \E c \in 1..Len(node.children) : ContainsSymbol(node.children[c], symbol)

\* C14: with createEnglishGrammar and createBuffaloLexicon, the sentence of
\* n tokens 'buffalo' returns at least one tree for n = 2, 3, 4, 5 and 8;
\* for n = 8 every returned root spans [0, 8) and at least one returned tree
\* contains a node with symbol V.
BuffaloSentencesParse ==
  (/\ Returned
   /\ grammar = createEnglishGrammar /\ lexicon = createBuffaloLexicon
   /\ \E n \in BuffaloLengths : input = BuffaloSentence(n)) =>
     /\ Len(ResultTrees) >= 1
     /\ input = BuffaloSentence(8) =>
          /\ \A k \in 1..Len(ResultTrees) : ResultTrees[k].root.span = <<0, 8>>
          /\ \E k \in 1..Len(ResultTrees) : ContainsSymbol(ResultTrees[k].root, "V")

\* the sentence of eight tokens has returned
EightBuffaloReturned ==
  /\ Returned
  /\ input = BuffaloSentence(8)
  /\ Len(ResultTrees) >= 1

----------------------------------------------------------------------------
(* A Lexicon under construction: addWord called again and again.            *)
(* lexicon is the Lexicon object; seen is the caller's record of the calls  *)
(* it made, in order; the other variables stay as constructed.              *)

\* the number of addWord or addRule calls of one construction
MaxCalls == 3

\* the arguments of the addWord calls: <<word, pos, features, lemma>>; the
\* proper noun is 'PN' in the lexicons of the repository and 'NP' in the
\* type PartOfSpeech of pos
LexiconCalls ==
  { <<"dog", "N", None, None>>,
    <<"Dog", "N", None, None>>,
    <<"DOG", "V", None, None>>,
    <<"dog", "V", <<[tense |-> "present"]>>, None>>,
    <<"Dog", "PN", None, <<"rex">> >>,
    <<"run", "N", None, None>>,
    <<"run", "V", None, None>>,
    <<"Buffalo", "PN", None, <<"buffalo">> >>,
    <<"Buffalo", "NP", None, None>>,
    <<"buffalo", "N", <<[number |-> "plural"]>>, None>> }

\* the words the caller looks up
LexiconWords == {"dog", "Dog", "DOG", "run", "buffalo", "Buffalo", "cat"}

InitLexicon ==
  /\ grammar = NewGrammar
  /\ lexicon = NewLexicon
  /\ input = <<>>
  /\ pc = "idle"
  /\ chart = <<>>
  /\ chartSet = <<>>
  /\ nextId = 0
  /\ edges = <<>>
  /\ pos = 0
  /\ i = 0
  /\ result = <<>>
  /\ seen = <<>>

\* lex.addWord(word, pos, features, lemma)
AddWordCall(c) ==
  /\ Len(seen) < MaxCalls
  /\ lexicon' = addWord(lexicon, c[1], c[2], c[3], c[4])
  /\ seen' = Append(seen, c)
  /\ UNCHANGED <<grammar, input, pc, chart, chartSet, nextId, edges, pos, i, result>>

NextLexicon == \E c \in LexiconCalls : AddWordCall(c)

SpecLexicon == InitLexicon /\ [][NextLexicon]_vars

\* the spellings of one word: two words are equal ignoring case exactly
\* when they are in the same set
CaseClasses ==
  { {"dog", "Dog", "DOG"}, {"run"}, {"buffalo", "Buffalo"}, {"cat"}, {"the", "The"} }

EqualIgnoringCase(a, b) == \E cl \in CaseClasses : a \in cl /\ b \in cl

\* the entry an addWord call stands for
EntryOfCall(c) ==
  [word |-> c[1], pos |-> c[2],
   lemma |-> IF c[4] = <<>> THEN (CHOOSE l \in {"dog", "run", "buffalo"} : EqualIgnoringCase(l, c[1]))
             ELSE c[4][1],
   features |-> c[3]]

\* the entries of the calls made for w, in call order
RECURSIVE EntriesAddedFor(_, _)
EntriesAddedFor(calls, w) ==
  IF calls = <<>> THEN <<>>
  ELSE (IF EqualIgnoringCase(calls[1][1], w) THEN <<EntryOfCall(calls[1])>> ELSE <<>>)
       \o EntriesAddedFor(Tail(calls), w)

\* C15: after any sequence of addWord calls, lookup(w) returns exactly the
\* entries added for the words equal to w ignoring case, one per call and in
\* call order, and size is the number of addWord calls.
LookupReturnsAdded ==
  /\ \A w \in LexiconWords : lookup(lexicon, w) = EntriesAddedFor(seen, w)
  /\ size(lexicon) = Len(seen)

\* three calls, two of them for one word in different spellings and with
\* different parts of speech
SeveralReadingsAdded ==
  /\ Len(seen) = 3
  /\ \E a, b \in 1..3 :
       /\ a < b
       /\ seen[a][1] # seen[b][1]
       /\ EqualIgnoringCase(seen[a][1], seen[b][1])
       /\ seen[a][2] # seen[b][2]
  /\ Cardinality(words(lexicon)) = 2

\* C16: lookup and has are case-insensitive: words that differ only in
\* letter case have the same lookup and the same has; a word never added
\* has an empty lookup and has is false; has(w) holds exactly when
\* lookup(w) is not empty.
CaseInsensitive ==
  /\ \A w, v \in LexiconWords :
       EqualIgnoringCase(w, v) =>
         /\ lookup(lexicon, w) = lookup(lexicon, v)
         /\ has(lexicon, w) = has(lexicon, v)
  /\ \A w \in LexiconWords :
       /\ (\A n \in 1..Len(seen) : ~EqualIgnoringCase(seen[n][1], w)) =>
            (lookup(lexicon, w) = <<>> /\ ~has(lexicon, w))
       /\ has(lexicon, w) <=> (lookup(lexicon, w) # <<>>)

\* a word was added in one spelling only, and is found under another; a
\* third word was never added
OtherSpellingFound ==
  /\ seen # <<>>
  /\ \A n \in 1..Len(seen) : seen[n][1] = "Dog"
  /\ lookup(lexicon, "DOG") # <<>>
  /\ ~has(lexicon, "cat")

----------------------------------------------------------------------------
(* A Grammar under construction: addRule called again and again.            *)
(* grammar is the Grammar object; seen is the caller's record of the calls  *)
(* it made, in order; the other variables stay as constructed.              *)

\* the arguments of the addRule calls: <<lhs, rhs, probability>>, the
\* probability in hundredths (100 when the caller leaves it out)
GrammarCalls ==
  { <<"S", <<"NP", "VP">>, 100>>,
    <<"S", <<"NP", "VP">>, 80>>,
    <<"NP", <<"DET", "N">>, 100>>,
    <<"NP", <<"N">>, 100>>,
    <<"VP", <<"V">>, 100>>,
    <<"VP", <<"V", "NP">>, 60>> }

\* grammar and lexicon as constructed, no parse called
InitGrammar == InitLexicon

\* g.addRule(lhs, rhs, probability)
AddRuleCall(c) ==
  /\ Len(seen) < MaxCalls
  /\ grammar' = addRule(grammar, c[1], c[2], c[3])
  /\ seen' = Append(seen, c)
  /\ UNCHANGED <<lexicon, input, pc, chart, chartSet, nextId, edges, pos, i, result>>

NextGrammar == \E c \in GrammarCalls : AddRuleCall(c)

SpecGrammar == InitGrammar /\ [][NextGrammar]_vars

\* the rule an addRule call stands for
RuleOfCall(c) == [lhs |-> c[1], rhs |-> c[2], probability |-> c[3]]

\* the rules of the calls made with left-hand side A, in call order
RulesAddedFor(calls, A) ==
  LET made == SelectSeq(calls, LAMBDA c : c[1] = A)
  IN [n \in 1..Len(made) |-> RuleOfCall(made[n])]

\* getRulesFor and getAllRules give the rules added, in insertion order
RulesAsAdded ==
  /\ \A A \in nonTerminals : getRulesFor(grammar, A) = RulesAddedFor(seen, A)
  /\ getAllRules(grammar) = [n \in 1..Len(seen) |-> RuleOfCall(seen[n])]

\* an addRule call leaves the rules of the other left-hand sides as they were
OtherRulesKept ==
  \A A \in nonTerminals :
    (seen' # seen /\ seen'[Len(seen')][1] # A) =>
       getRulesFor(grammar', A) = getRulesFor(grammar, A)

\* C17: after any sequence of addRule calls, getRulesFor(A) returns exactly
\* the rules added with left-hand side A, in insertion order; adding a rule
\* for another left-hand side leaves getRulesFor(A) unchanged; a left-hand
\* side with no rule yields the empty list; getAllRules holds every added
\* rule in insertion order.
RulesInInsertionOrder == [](RulesAsAdded) /\ [][OtherRulesKept]_vars

\* three rules were added, two with one left-hand side and, between them,
\* one with another; a fourth left-hand side has no rule
RulesInterleaved ==
  /\ Len(seen) = 3
  /\ seen[1][1] = seen[3][1]
  /\ seen[2][1] # seen[1][1]
  /\ seen[1] # seen[3]
  /\ getRulesFor(grammar, "PP") = <<>>

----------------------------------------------------------------------------
(* Symbols *)

\* type PartOfSpeech: the tags the pos of a lexicon entry can take
PartOfSpeech == {"N", "V", "NP", "DET", "ADJ", "ADV", "PREP", "CONJ", "REL", "AUX"}

\* type NonTerminal
NonTerminal == {"S", "NP", "VP", "PP", "ADJP", "ADVP", "RC"}

\* type GrammarSymbol, and the tag 'PN' of the grammars and lexicons
GrammarSymbol == PartOfSpeech \cup NonTerminal \cup {"PN"}

\* the entries of a lexicon
EntriesOf(lex) == UNION {Range(lex[k]) : k \in DOMAIN lex}

\* C18: terminals and non-terminals are disjoint and classified by the
\* symbol alone: for every grammar symbol exactly one of isTerminal and
\* isNonTerminal holds; isNonTerminal holds exactly for S, NP, VP, PP, ADJP,
\* ADVP, RC; every part-of-speech tag the pos of a lexicon entry can take is
\* classified as a terminal.
SymbolClasses ==
  /\ \A s \in GrammarSymbol : isTerminal(s) # isNonTerminal(s)
  /\ \A s \in GrammarSymbol :
       isNonTerminal(s) <=> s \in {"S", "NP", "VP", "PP", "ADJP", "ADVP", "RC"}
  /\ \A e \in EntriesOf(lexicon) : e.pos \in PartOfSpeech => isTerminal(e.pos)

\* the same, for the tags the lexicons of the repository use ('PN' for the
\* proper noun)
SymbolClassesOfUsedTags ==
  /\ \A s \in GrammarSymbol : isTerminal(s) # isNonTerminal(s)
  /\ \A s \in GrammarSymbol :
       isNonTerminal(s) <=> s \in {"S", "NP", "VP", "PP", "ADJP", "ADVP", "RC"}
  /\ \A e \in EntriesOf(lexicon) :
       e.pos \in (PartOfSpeech \ {"NP"}) \cup {"PN"} => isTerminal(e.pos)

----------------------------------------------------------------------------
(* The collaborators of parse *)

\* a step leaves what the Grammar and the Lexicon answer as it was, and a
\* step of a call leaves the tokens of the call as they were
CollaboratorsKept ==
  /\ \A A \in nonTerminals : getRulesFor(grammar', A) = getRulesFor(grammar, A)
  /\ getAllRules(grammar') = getAllRules(grammar)
  /\ \A w \in words(lexicon) \cup words(lexicon') \cup Range(input) :
       /\ lookup(lexicon', w) = lookup(lexicon, w)
       /\ has(lexicon', w) = has(lexicon, w)
  /\ size(lexicon') = size(lexicon)
  /\ pc = "chart" => input' = input

\* C19: parse is read-only on its collaborators: after any sequence of parse
\* calls the rules of the Grammar (getRulesFor, getAllRules) and the entries
\* of the Lexicon (lookup, has, size) are what they were before the calls,
\* and the input token sequence is unchanged and returned as result.input.
ParseIsReadOnly ==
  /\ [](Returned => result[1].input = input)
  /\ [][CollaboratorsKept]_vars

\* a call has returned that scanned a token the lexicon does not have
UnknownTokenReturned ==
  /\ Returned
  /\ Len(input) = 3
  /\ input[1] = "the"
  /\ ~has(lexicon, input[2])
  /\ Len(chart[2]) >= 1
  /\ size(lexicon) = 48
  /\ result[1].input = input

----------------------------------------------------------------------------
(* Several invocations of parse on one parser, their steps interleaved.     *)
(* grammar and lexicon are the shared collaborators; seen holds the frames  *)
(* of the invocations, one record of the locals of parse per invocation;    *)
(* the other variables stay as constructed.                                 *)

\* the number of invocations
Invocations == 2

\* the locals of an invocation not yet made; overlapped is the observer's
\* note that the invocation took a step while another was in its column loop
IdleFrame ==
  [input |-> <<>>, pc |-> "idle", chart |-> <<>>, chartSet |-> <<>>, nextId |-> 0,
   edges |-> <<>>, pos |-> 0, i |-> 0, result |-> <<>>, overlapped |-> FALSE]

\* the chart, chartSet, nextId and edges of a frame
LocalsOf(f) == [chart |-> f.chart, chartSet |-> f.chartSet, nextId |-> f.nextId, edges |-> f.edges]

\* the frame with these chart, chartSet, nextId and edges, and i++
Stepped(f, st) ==
  [f EXCEPT !.chart = st.chart, !.chartSet = st.chartSet, !.nextId = st.nextId,
            !.edges = st.edges, !.i = f.i + 1]

\* parse(tokens) up to the column loop: the empty input returns, any other
\* input gets its own chart, chartSet, nextId and edges
StartFrame(g, tokens) ==
  IF tokens = <<>>
  THEN [IdleFrame EXCEPT !.pc = "done",
          !.result = <<[input |-> <<>>, trees |-> <<>>, errors |-> << <<"Empty input">> >>]>>]
  ELSE LET fresh == [chart |-> [k \in 1..(Len(tokens) + 1) |-> <<>>],
                     chartSet |-> [k \in 1..(Len(tokens) + 1) |-> {}],
                     nextId |-> 0,
                     edges |-> <<>>]
           st == PredictLoop(fresh, 0, getRulesFor(g, "S"))
       IN [input |-> tokens, pc |-> "chart", chart |-> st.chart, chartSet |-> st.chartSet,
           nextId |-> st.nextId, edges |-> st.edges, pos |-> 0, i |-> 0, result |-> <<>>,
           overlapped |-> FALSE]

\* one step of the column loop of an invocation, or its return
ParseStep(g, lex, f) ==
  IF f.pc # "chart" THEN f
  ELSE IF f.i < Len(f.chart[f.pos + 1])
  THEN LET item == f.chart[f.pos + 1][f.i + 1]
       IN IF item.dot >= Len(item.rule.rhs)
          THEN Stepped(f, complete(LocalsOf(f), f.pos, item))
          ELSE IF isNonTerminal(NextSymbolOf(item)[1])
          THEN Stepped(f, predict(LocalsOf(f), g, f.pos, NextSymbolOf(item)[1]))
          ELSE IF f.pos < Len(f.input)
          THEN Stepped(f, scan(LocalsOf(f), lex, f.pos, item, f.input[f.pos + 1]))
          ELSE [f EXCEPT !.i = f.i + 1]
  ELSE IF f.pos < Len(f.input)
  THEN [f EXCEPT !.pos = f.pos + 1, !.i = 0]
  ELSE LET trees == extractTrees(f.chart, f.edges, f.input)
       IN Strict(trees,
            [f EXCEPT !.pc = "done",
                      !.result = <<ParseResultOf(f.input, deduplicateTrees(trees))>>])

\* locals that are one map of provenance edges for all the invocations
Visible_sharedEdges(other, stepped) == [other EXCEPT !.edges = stepped.edges]

\* what a step of one invocation does to the locals of another: chart,
\* chartSet, nextId and edges are declared in parse, one of each per call
Visible(other, stepped) == other

\* the frames after invocation k has become frame f
FramesAfter(frames, k, f) ==
  [n \in 1..Len(frames) |-> IF n = k THEN f ELSE Visible(frames[n], f)]

\* the parsers and the token sequences of the interleaved invocations
InterleavedSetups ==
  { [g |-> AmbiguousGrammar, l |-> PlainLexicon,
     inputs |-> { <<"buffalo", "buffalo">>, <<"dog">> }],
    [g |-> ScenarioGrammar, l |-> createTestLexicon,
     inputs |-> { <<"the", "dog", "chased", "the", "cat">>, <<>> }] }

InitInterleaved ==
  /\ \E s \in InterleavedSetups : grammar = s.g /\ lexicon = s.l
  /\ input = <<>>
  /\ pc = "idle"
  /\ chart = <<>>
  /\ chartSet = <<>>
  /\ nextId = 0
  /\ edges = <<>>
  /\ pos = 0
  /\ i = 0
  /\ result = <<>>
  /\ seen = [k \in 1..Invocations |-> IdleFrame]

\* invocation k begins: parse(tokens)
Invoke(k, tokens) ==
  /\ seen[k].pc = "idle"
  /\ seen' = FramesAfter(seen, k, StartFrame(grammar, tokens))
  /\ UNCHANGED <<grammar, lexicon, input, pc, chart, chartSet, nextId, edges, pos, i, result>>

\* invocation k takes its next step
Advance(k) ==
  /\ seen[k].pc = "chart"
  /\ seen' = FramesAfter(seen, k,
               [ParseStep(grammar, lexicon, seen[k]) EXCEPT
                  !.overlapped = @ \/ \E n \in 1..Len(seen) : n # k /\ seen[n].pc = "chart"])
  /\ UNCHANGED <<grammar, lexicon, input, pc, chart, chartSet, nextId, edges, pos, i, result>>

NextInterleaved ==
  \/ \E k \in 1..Invocations :
       \E s \in {t \in InterleavedSetups : t.g = grammar /\ t.l = lexicon} :
         \E tokens \in s.inputs : Invoke(k, tokens)
  \/ \E k \in 1..Invocations : Advance(k)

SpecInterleaved == InitInterleaved /\ [][NextInterleaved]_vars

RECURSIVE RunSteps(_, _, _, _)
\* n steps of one invocation
RunSteps(g, lex, f, n) ==
  IF n = 0 THEN f
  ELSE IF n = 1 THEN ParseStep(g, lex, f)
  ELSE LET h == RunSteps(g, lex, f, n \div 2)
       IN Strict(h, RunSteps(g, lex, h, n - (n \div 2)))

RECURSIVE RunToReturn(_, _, _, _)
\* the steps of one invocation up to its return
RunToReturn(g, lex, f, n) ==
  LET h == RunSteps(g, lex, f, n)
  IN IF h.pc = "done" THEN h ELSE RunToReturn(g, lex, h, 2 * n)

\* the result of parse(tokens) run alone
ResultAlone(g, lex, tokens) == RunToReturn(g, lex, StartFrame(g, tokens), 1).result

----------------------------------------------------------------------------
(* The chart when its construction has ended *)

\* the column loop of a call with tokens has ended
ChartBuilt == pc = "done" /\ input # <<>>

\* the items of column k (0-based)
Column(k) == Range(chart[k + 1])

IsComplete(item) == item.dot >= Len(item.rule.rhs)

\* column k holds the waiting item W advanced by one, with a branch edge
\* from W and the completed item C
AdvancedOver(k, W, C) ==
  \E A \in Column(k) :
    /\ SameItem(A, W.rule, W.dot + 1, W.start)
    /\ \E e \in Range(EdgesGet(edges, A.id)) :
         e.itemId = W.id /\ e.children = <<C.id>> /\ e.terminalWord = <<>>

\* every completed item of every column has advanced every item that waits
\* for it in the column of its origin
CompletionClosed ==
  \A k \in 0..Len(input) :
    \A C \in Column(k) :
      IsComplete(C) =>
        \A W \in Column(C.start) :
          IsWaitingFor(W, C) => AdvancedOver(k, W, C)

\* C21 (completion closure): when chart construction ends, for every
\* completed item C in column k with origin j and every item W in column j
\* whose next expected symbol is the lhs of C, column k contains W advanced
\* by one, with a branch provenance edge (W, C).
CompletionClosure == ChartBuilt => CompletionClosed

\* the same, for the grammars without a rule of empty right-hand side
CompletionClosureWithoutEmptyRules ==
  (ChartBuilt /\ EpsilonFree(grammar)) => CompletionClosed

----------------------------------------------------------------------------
(* Chart items *)

\* the places of the chart: <<column (0-based), index in the column>>
Places == UNION {{<<k, n>> : n \in 1..Len(chart[k + 1])} : k \in 0..(Len(chart) - 1)}

ItemAt(pl) == chart[pl[1] + 1][pl[2]]

\* no column holds two items of one rule, dot and origin
NoItemTwice ==
  \A pl, ql \in Places :
    (pl[1] = ql[1] /\ pl[2] # ql[2]) =>
       ~SameItem(ItemAt(pl), ItemAt(ql).rule, ItemAt(ql).dot, ItemAt(ql).start)

\* inserting the rule, dot and origin of an item of the chart returns that
\* item and adds nothing
InsertionReturnsFirst ==
  \A pl \in Places :
    LET it == ItemAt(pl)
        r == addItem(LocalState, pl[1], it.rule, it.dot, it.start)
    IN r.item = <<it>> /\ r.st = LocalState

\* the ids of the items of the chart are pairwise distinct
IdsDistinct ==
  \A pl, ql \in Places : pl # ql => ItemAt(pl).id # ItemAt(ql).id

\* C22: chart items are deduplicated by (rule, dot, origin): after any
\* sequence of insertions no chart column holds two items with the same
\* rule, dot and origin, inserting an existing triple returns the item the
\* first insertion created, and the item ids are pairwise distinct across
\* the whole chart.
ItemsDeduplicated == NoItemTwice /\ InsertionReturnsFirst /\ IdsDistinct

\* an item has been reached a second time: it has two provenance edges, and
\* the chart holds items of one rule and dot with different origins
ItemReachedTwice ==
  /\ pc = "chart"
  /\ \E id \in DOMAIN edges : Len(edges[id]) >= 2
  /\ \E pl, ql \in Places :
       /\ pl[1] = ql[1]
       /\ ItemAt(pl).rule = ItemAt(ql).rule /\ ItemAt(pl).dot = ItemAt(ql).dot
       /\ ItemAt(pl).start # ItemAt(ql).start

----------------------------------------------------------------------------
(* Complete parses *)

\* column N holds an item with lhs S, the dot at the end of its rhs, and
\* origin 0
CompleteParseInChart ==
  \E item \in Column(Len(input)) :
    item.rule.lhs = "S" /\ item.dot = Len(item.rule.rhs) /\ item.start = 0

\* C23: for non-empty input of length N, result.trees is non-empty if and
\* only if, when chart construction ends, column N contains an item with lhs
\* S, dot at the end of its rhs, and origin 0.
TreesIffCompleteParse ==
  (ChartBuilt /\ result # <<>>) => ((ResultTrees # <<>>) <=> CompleteParseInChart)

\* trees are returned under the grammar with the cycle S -> NP, NP -> S, from
\* a chart whose last column has a completed item of S with two or more
\* provenance edges
CyclicParseReturned ==
  /\ ChartBuilt /\ result # <<>>
  /\ grammar = CyclicGrammar
  /\ ResultTrees # <<>>
  /\ CompleteParseInChart
  /\ \E item \in Column(Len(input)) :
       /\ item.rule.lhs = "S" /\ IsComplete(item)
       /\ Len(EdgesGet(edges, item.id)) >= 2

----------------------------------------------------------------------------
(* Termination.  parse is synchronous: a call that has begun takes the      *)
(* steps of its column loop one after the other until it returns.           *)

RECURSIVE DottedRules(_)
\* the number of pairs (rule, dot) of a list of rules
DottedRules(rules) ==
  IF rules = <<>> THEN 0 ELSE Len(rules[1].rhs) + 1 + DottedRules(Tail(rules))

\* the number of triples (rule, dot, origin) over the columns 0..n, the
\* origin of an item of column k being one of 0..k
ItemBound(g, n) == DottedRules(getAllRules(g)) * (((n + 1) * (n + 2)) \div 2)

\* the chart never holds more items than there are triples
FinitelyManyItems == pc \in {"chart", "done"} => nextId <= ItemBound(grammar, Len(input))

RECURSIVE ItemsBefore(_)
\* the number of items of the columns before column k
ItemsBefore(k) == IF k = 0 THEN 0 ELSE Len(chart[k]) + ItemsBefore(k - 1)

\* the iterations of the while loop and of the for loop made so far
LoopSteps == ItemsBefore(pos) + i + pos

\* the same, in the next state
LoopStepsNext == ItemsBefore(pos)' + i' + pos'

\* the column loop has a branch to take: the column pos exists
StepPossible == pc = "chart" => (Len(chart) = Len(input) + 1 /\ pos <= Len(input))

\* the column loop never makes more iterations than there are triples and
\* columns
BoundedSteps == pc = "chart" => LoopSteps <= ItemBound(grammar, Len(input)) + Len(input)

\* a step of a call in progress is one more iteration, or the return
StepAdvances == pc = "chart" => (pc' = "done" \/ (pc' = "chart" /\ LoopStepsNext = LoopSteps + 1))

\* an item met again on its own recursion path gives no trees
RevisitYieldsNothing ==
  ChartBuilt =>
    \A pl \in Places :
      buildNodes(ItemAt(pl), edges, ItemMapOf(chart), {ItemAt(pl).id}) = <<>>

\* C24: parse terminates for every grammar, lexicon and token sequence,
\* left-recursive rules and cyclic derivations included: chart construction
\* stops after finitely many items (every step of a call is one more
\* iteration of a loop whose iterations are bounded by the number of items
\* and columns, or is the return), and an item revisited on its own
\* recursion path in tree extraction yields no trees and raises no error.
ParseTerminates ==
  /\ [](FinitelyManyItems /\ StepPossible /\ BoundedSteps /\ RevisitYieldsNothing)
  /\ [][StepAdvances]_vars

\* a call has returned under a grammar with a left-recursive rule, from a
\* chart in which an item has a provenance edge whose child is an item that
\* was created after it
LeftRecursiveReturned ==
  /\ Returned /\ input # <<>>
  /\ \E r \in Range(getAllRules(grammar)) : r.rhs # <<>> /\ r.rhs[1] = r.lhs
  /\ \E id \in DOMAIN edges :
       \E e \in Range(edges[id]) : e.children # <<>> /\ e.children[1] > id

----------------------------------------------------------------------------
(* The order of processing *)

\* every column keeps the items it has, in their places: items are only
\* appended
ItemsKeepPlaces ==
  /\ Len(chart') = Len(chart)
  /\ \A c \in 1..Len(chart) :
       Len(chart'[c]) >= Len(chart[c]) /\ SubSeq(chart'[c], 1, Len(chart[c])) = chart[c]

\* how many of the formulas hold
HowMany(bs) == Cardinality({k \in 1..Len(bs) : bs[k]})

\* the step processes the next item of the column, in insertion order
ProcessesNextItem ==
  /\ pc' = "chart" /\ pos' = pos
  /\ i < Len(chart[pos + 1]) /\ i' = i + 1
  /\ ItemsKeepPlaces

\* the step leaves a column all of whose items have been processed, those
\* inserted during the traversal included, for the next column
LeavesFinishedColumn ==
  /\ pc' = "chart" /\ pos' = pos + 1 /\ i' = 0
  /\ i = Len(chart[pos + 1]) /\ pos < Len(input)
  /\ chart' = chart

\* the step returns after the last column, all of whose items have been
\* processed
ReturnsAfterLastColumn ==
  /\ pc' = "done"
  /\ i = Len(chart[pos + 1]) /\ pos = Len(input)
  /\ chart' = chart

\* columns left to right, items in insertion order, each by exactly one of
\* completion, prediction and scanning
ProcessedByOneOfThree ==
  pc = "chart" =>
    \/ ProcessesNextItem /\ HowMany(<<Completion, Prediction, Scanning>>) = 1
    \/ LeavesFinishedColumn
    \/ ReturnsAfterLastColumn

\* the same, an item of the last column that expects a terminal being
\* passed over by none of the three
ProcessedByOneOrPassedOver ==
  pc = "chart" =>
    \/ /\ ProcessesNextItem
       /\ HowMany(<<Completion, Prediction, Scanning, PassOver>>) = 1
       /\ PassOver => /\ pos = Len(input)
                      /\ NextSymbolOf(CurrentItem) # <<>>
                      /\ isTerminal(NextSymbolOf(CurrentItem)[1])
    \/ LeavesFinishedColumn
    \/ ReturnsAfterLastColumn

\* C25 as stated: columns are processed left to right and, within a column,
\* in insertion order; every item of a column, including items inserted
\* into it while it is being traversed, is processed exactly once, by
\* exactly one of completion, prediction or scanning, before processing
\* moves to the next column.
ProcessingOrder == [](pc = "chart" => i <= Len(chart[pos + 1])) /\ [][ProcessedByOneOfThree]_vars

\* C25 (amended): the same order, every item processed exactly once by
\* exactly one of completion, prediction or scanning, except the items of
\* the last column that expect a terminal, which are visited once and
\* processed by none of the three.
ProcessingOrderWithPassOver ==
  [](pc = "chart" => i <= Len(chart[pos + 1])) /\ [][ProcessedByOneOrPassedOver]_vars

\* the last column has been traversed to its end; it holds an item that was
\* predicted during the traversal and expects a terminal
LastColumnTraversed ==
  /\ pc = "chart"
  /\ pos = Len(input) /\ pos >= 2
  /\ i = Len(chart[pos + 1])
  /\ \E n \in 1..Len(chart[pos + 1]) :
       LET it == chart[pos + 1][n]
       IN /\ it.dot = 0 /\ it.start = pos
          /\ NextSymbolOf(it) # <<>> /\ isTerminal(NextSymbolOf(it)[1])

----------------------------------------------------------------------------
(* Scanning *)

\* the next expected symbol of the item is the terminal t
ExpectsTerminal(item, t) == NextSymbolOf(item) = <<t>> /\ isTerminal(t)

\* the lexicon has an entry of pos t for token k (0-based)
EntryOfPos(k, t) == \E e \in Range(lookup(lexicon, input[k + 1])) : e.pos = t

\* column k + 1 holds W advanced by one, with a leaf edge from W that
\* carries token k
AdvancedByScan(k, W) ==
  \E A \in Column(k + 1) :
    /\ SameItem(A, W.rule, W.dot + 1, W.start)
    /\ \E e \in Range(EdgesGet(edges, A.id)) :
         e.itemId = W.id /\ e.children = <<>> /\ e.terminalWord = <<input[k + 1]>>

\* every item that expects a terminal the token has an entry for is advanced
ScannedWhereEntry ==
  \A k \in 0..(Len(input) - 1) :
    \A W \in Column(k) :
      \A t \in {W.rule.rhs[n] : n \in 1..Len(W.rule.rhs)} :
        (ExpectsTerminal(W, t) /\ EntryOfPos(k, t)) => AdvancedByScan(k, W)

\* every leaf edge is on an item of a column k + 1 <= N and comes from an
\* item of column k that expects a terminal the token k has an entry for
ScannedOnlyWhereEntry ==
  /\ Len(chart) = Len(input) + 1
  /\ \A pl \in Places :
       \A e \in Range(EdgesGet(edges, ItemAt(pl).id)) :
         e.terminalWord # <<>> =>
           /\ pl[1] >= 1
           /\ e.terminalWord = <<input[pl[1]]>>
           /\ \E W \in Column(pl[1] - 1) :
                /\ W.id = e.itemId
                /\ SameItem(ItemAt(pl), W.rule, W.dot + 1, W.start)
                /\ NextSymbolOf(W) # <<>>
                /\ ExpectsTerminal(W, NextSymbolOf(W)[1])
                /\ EntryOfPos(pl[1] - 1, NextSymbolOf(W)[1])

\* C26 (scanning closure): for every item in a column k < N whose next
\* expected symbol is a terminal t and every lexicon entry of token k whose
\* pos is t, column k+1 contains the item advanced by one with a leaf
\* provenance edge carrying token k; no item is advanced over a token that
\* has no entry of pos t, and nothing is scanned from column N.
ScanningClosure == ChartBuilt => (ScannedWhereEntry /\ ScannedOnlyWhereEntry)

\* the chart of a call is built in which an item was advanced over a token
\* whose first lexicon entry has another part of speech, and an item of the
\* same column that expects another terminal was not
ScannedByLaterEntry ==
  /\ ChartBuilt
  /\ Len(input) >= 2
  /\ \E W, V \in Column(1) :
       /\ NextSymbolOf(W) # <<>> /\ NextSymbolOf(V) # <<>>
       /\ ExpectsTerminal(W, NextSymbolOf(W)[1])
       /\ ExpectsTerminal(V, NextSymbolOf(V)[1])
       /\ EntryOfPos(1, NextSymbolOf(W)[1])
       /\ lookup(lexicon, input[2])[1].pos # NextSymbolOf(W)[1]
       /\ AdvancedByScan(1, W)
       /\ ~EntryOfPos(1, NextSymbolOf(V)[1])
       /\ ~AdvancedByScan(1, V)

----------------------------------------------------------------------------
(* The order of the returned trees *)

\* the trees extractTrees enumerated in the call that returned
EnumeratedTrees == extractTrees(chart, edges, input)

\* the index of the first tree of the list with this serialization
FirstIndexOf(keys, key) ==
  CHOOSE k \in 1..Len(keys) : keys[k] = key /\ \A j \in 1..(k - 1) : keys[j] # key

\* kept is the subsequence of all made of the first occurrence of each
\* serialization, in the order of all
IsFirstOccurrences(kept, all) ==
  LET keys == KeysOf(all)
      keptKeys == KeysOf(kept)
  IN /\ Range(keptKeys) = Range(keys)
     /\ Len(kept) = Cardinality(Range(keys))
     /\ \A n \in 1..Len(kept) : kept[n] = all[FirstIndexOf(keys, keptKeys[n])]
     /\ \A n \in 1..(Len(kept) - 1) :
          FirstIndexOf(keys, keptKeys[n]) < FirstIndexOf(keys, keptKeys[n + 1])

\* C27: deduplication keeps the first occurrence of each canonical
\* serialization and preserves order: result.trees is the subsequence of
\* the enumerated trees made of the first occurrence of each serialization,
\* in derivation-discovery order, and is never re-sorted by rule weight.
FirstOccurrencesInOrder ==
  (Returned /\ input # <<>>) => IsFirstOccurrences(ResultTrees, EnumeratedTrees)

\* trees are returned, fewer than were enumerated, a tree of lower weight
\* before one of higher weight
LighterTreeFirst ==
  /\ Returned /\ input # <<>>
  /\ Len(ResultTrees) >= 2
  /\ Len(EnumeratedTrees) > Len(ResultTrees)
  /\ \E a, b \in 1..Len(ResultTrees) :
       a < b /\ ResultTrees[a].probability < ResultTrees[b].probability

----------------------------------------------------------------------------
(* Interpretation of a returned tree: src/src/interpreter.ts.               *)
(* The HTML text is kept as the sequence of its words: a plain word, or a   *)
(* <span class=...> word with its <sup class="interp-pos"> number. A        *)
(* template `${a} ${b}` is the concatenation of the two sequences. The      *)
(* fields isSubject, isMainNoun and depth of InterpretContext are written   *)
(* by the source and read by no branch of it: the context kept here is      *)
(* [html, position].                                                        *)

COLOR_PN == "interp-pn"
COLOR_N == "interp-n"
COLOR_V == "interp-v"

\* a word outside any span
PlainWord(text) == [class |-> "", text |-> text, sup |-> <<>>]

\* what an interpret function hands back: its text and the counter it leaves
Interpreted(text, position) == [text |-> text, position |-> position]

\* wrap: without html the text alone and the counter untouched; with html
\* the span with superscript position.value, and position.value++
wrap(text, colorClass, ctx) ==
  IF ~ctx.html
    THEN Interpreted(<<PlainWord(text)>>, ctx.position)
    ELSE Interpreted(<<[class |-> colorClass, text |-> text, sup |-> <<ctx.position>>]>>,
                     ctx.position + 1)

\* the context after a call that left the shared counter at r.position
After(ctx, r) == [ctx EXCEPT !.position = r.position]

\* two results in the order they were computed, text in between
Joined(a, between, b) == Interpreted(a.text \o between \o b.text, b.position)

\* interpretTerminal
interpretTerminal(symbol, word, ctx) ==
  CASE symbol = "PN" -> wrap("Buffalo", COLOR_PN, ctx)
    [] symbol = "N" -> wrap("bison", COLOR_N, ctx)
    [] symbol = "V" -> wrap("intimidate", COLOR_V, ctx)
    [] OTHER -> Interpreted(<<PlainWord(word)>>, ctx.position)

RECURSIVE interpretNode(_, _)
RECURSIVE interpretAll(_, _, _)

\* children.map(c => interpretNode(c, ctx)).join(' ') from child k on
interpretAll(children, k, ctx) ==
  IF k > Len(children)
    THEN Interpreted(<<>>, ctx.position)
    ELSE LET a == interpretNode(children[k], ctx)
         IN Joined(a, <<>>, interpretAll(children, k + 1, After(ctx, a)))

\* interpretNode of first, then of second, text in between
interpretBoth(first, between, second, ctx) ==
  LET a == interpretNode(first, ctx)
  IN Joined(a, between, interpretNode(second, After(ctx, a)))

\* text, then interpretNode of node
interpretAfter(text, node, ctx) ==
  Joined(Interpreted(<<>>, ctx.position), <<PlainWord(text)>>, interpretNode(node, ctx))

\* interpretSentence
interpretSentence(children, ctx) ==
  CASE Len(children) = 1 -> interpretNode(children[1], ctx)
    [] Len(children) = 2 -> interpretBoth(children[1], <<>>, children[2], ctx)
    [] Len(children) = 3 /\ children[2].symbol = "CONJ" ->
         interpretBoth(children[1], <<PlainWord(", and")>>, children[3], ctx)
    [] OTHER -> interpretAll(children, 1, ctx)

\* interpretNounPhrase with two children
interpretNounPhraseOfTwo(first, second, children, ctx) ==
  CASE first.symbol = "PN" /\ second.symbol = "N" ->
         LET pnPart == wrap("Buffalo", COLOR_PN, ctx)
             nPart == wrap("bison", COLOR_N, After(ctx, pnPart))
         IN Interpreted(nPart.text \o <<PlainWord("from")>> \o pnPart.text, nPart.position)
    [] first.symbol = "NP" /\ second.symbol = "N" ->
         LET firstPart == interpretNode(first, ctx)
         IN Joined(firstPart, <<>>, wrap("bison", COLOR_N, After(ctx, firstPart)))
    [] first.symbol = "NP" /\ second.symbol \in {"RC", "PP"} ->
         interpretBoth(first, <<>>, second, ctx)
    [] first.symbol = "DET" /\ second.symbol = "N" ->
         Joined(Interpreted(<<>>, ctx.position), <<PlainWord("the")>>, wrap("bison", COLOR_N, ctx))
    [] first.symbol = "ADJ" /\ second.symbol = "N" ->
         LET adj == interpretNode(first, ctx)
         IN Joined(adj, <<>>, wrap("bison", COLOR_N, After(ctx, adj)))
    [] OTHER -> interpretAll(children, 1, ctx)

\* interpretNounPhrase
interpretNounPhrase(children, ctx) ==
  CASE Len(children) = 1 ->
         ( CASE children[1].symbol = "N" -> wrap("bison", COLOR_N, ctx)
             [] children[1].symbol = "PN" -> wrap("Buffalo", COLOR_PN, ctx)
             [] OTHER -> interpretNode(children[1], ctx) )
    [] Len(children) = 2 -> interpretNounPhraseOfTwo(children[1], children[2], children, ctx)
    [] Len(children) = 3 /\ children[2].symbol = "CONJ" ->
         interpretBoth(children[1], <<PlainWord("and")>>, children[3], ctx)
    [] OTHER -> interpretAll(children, 1, ctx)

\* interpretVerbPhrase
interpretVerbPhrase(children, ctx) ==
  CASE Len(children) = 1 -> wrap("intimidate", COLOR_V, ctx)
    [] Len(children) = 2 /\ children[1].symbol = "V" /\ children[2].symbol \in {"NP", "PP"} ->
         LET verb == wrap("intimidate", COLOR_V, ctx)
         IN Joined(verb, <<>>, interpretNode(children[2], After(ctx, verb)))
    [] Len(children) = 3 /\ children[2].symbol = "CONJ" ->
         interpretBoth(children[1], <<PlainWord("and")>>, children[3], ctx)
    [] OTHER -> interpretAll(children, 1, ctx)

\* interpretRelativeClause
interpretRelativeClause(children, ctx) ==
  CASE Len(children) = 2 /\ children[1].symbol = "NP" /\ children[2].symbol = "VP" ->
         Joined(Interpreted(<<>>, ctx.position), <<PlainWord("that")>>,
                interpretBoth(children[1], <<>>, children[2], ctx))
    [] Len(children) = 2 /\ children[1].symbol = "REL" /\ children[2].symbol \in {"VP", "S"} ->
         interpretAfter("that", children[2], ctx)
    [] Len(children) = 1 /\ children[1].symbol = "S" ->
         interpretAfter("that", children[1], ctx)
    [] OTHER -> Joined(Interpreted(<<>>, ctx.position), <<PlainWord("that")>>,
                       interpretAll(children, 1, ctx))

\* interpretPrepPhrase
interpretPrepPhrase(children, ctx) ==
  IF Len(children) = 2
    THEN interpretBoth(children[1], <<>>, children[2], ctx)
    ELSE interpretAll(children, 1, ctx)

\* interpretNode
interpretNode(node, ctx) ==
  IF Len(node.children) = 0 /\ node.word # <<>> /\ node.word # <<"">>
    THEN interpretTerminal(node.symbol, node.word[1], ctx)
    ELSE CASE node.symbol = "S" -> interpretSentence(node.children, ctx)
           [] node.symbol = "NP" -> interpretNounPhrase(node.children, ctx)
           [] node.symbol = "VP" -> interpretVerbPhrase(node.children, ctx)
           [] node.symbol = "RC" -> interpretRelativeClause(node.children, ctx)
           [] node.symbol = "PP" -> interpretPrepPhrase(node.children, ctx)
           [] OTHER -> interpretAll(node.children, 1, ctx)

\* String.prototype.toUpperCase on the first character of the words of the model
upperFirst(w) ==
  CASE w = "bison" -> "Bison"
    [] w = "intimidate" -> "Intimidate"
    [] w = "the" -> "The"
    [] w = "that" -> "That"
    [] w = "buffalo" -> "Buffalo"
    [] w = "dog" -> "Dog"
    [] w = "ran" -> "Ran"
    [] OTHER -> w

\* capitalizeFirstHTML: the first character after the leading tags
capitalizeFirstHTML(s) ==
  IF s = <<>> THEN s ELSE [s EXCEPT ![1].text = upperFirst(@)]

\* interpretTreeHTML
interpretTreeHTML(tree) ==
  LET ctx == [html |-> TRUE, position |-> 1]
      r == interpretNode(tree.root, ctx)
  IN Append(capitalizeFirstHTML(r.text), PlainWord("."))

----------------------------------------------------------------------------
(* C28: superscript position numbers *)

\* the terminal nodes of a tree
TerminalNodes(node) == {n \in NodesOf(node) : Len(n.children) = 0 /\ n.word # <<>>}

\* the 1-indexed sentence position of a terminal node
PositionOf(n) == n.span[1] + 1

\* the colour class of the words that translate a terminal of this symbol
ColourOf(symbol) ==
  CASE symbol = "PN" -> COLOR_PN
    [] symbol = "N" -> COLOR_N
    [] symbol = "V" -> COLOR_V
    [] OTHER -> ""

\* the colour-coded words of an interpretation
ColouredWords(html) == {html[k] : k \in {j \in 1..Len(html) : html[j].class # ""}}

\* each colour-coded word carries the position of a terminal node of its colour
LinksWordsToNodes(tree) ==
  \A w \in ColouredWords(interpretTreeHTML(tree)) :
    \E n \in TerminalNodes(tree.root) :
      ColourOf(n.symbol) = w.class /\ w.sup = <<PositionOf(n)>>

\* every terminal of the tree is a proper noun, a noun or a verb
OnlyColouredTerminals(tree) ==
  \A n \in TerminalNodes(tree.root) : n.symbol \in {"PN", "N", "V"}

\* C28: in interpretTreeHTML the superscript position numbers link words to
\* tree nodes: for every tree the parser returns, each colour-coded word
\* carries as superscript the 1-indexed sentence position of the terminal
\* node it translates.
SuperscriptsLinkWords ==
  Returned => \A k \in 1..Len(ResultTrees) : LinksWordsToNodes(ResultTrees[k])

\* the same for the returned trees whose terminals are all colour-coded:
\* there the superscripts are exactly the positions of the terminals
SuperscriptsLinkWordsOfColouredTrees ==
  Returned =>
    \A k \in 1..Len(ResultTrees) :
      OnlyColouredTerminals(ResultTrees[k]) =>
        /\ LinksWordsToNodes(ResultTrees[k])
        /\ {<<w.class, w.sup[1]>> : w \in ColouredWords(interpretTreeHTML(ResultTrees[k]))}
             = {<<ColourOf(n.symbol), PositionOf(n)>> : n \in TerminalNodes(ResultTrees[k].root)}

----------------------------------------------------------------------------
(* C29: provenance edges are well-formed *)

\* W is the item an edge of A names as the item advanced: the rule and the
\* origin of A, the dot one less
IsAdvancedFrom(A, W, e) ==
  /\ W.id = e.itemId
  /\ W.rule = A.rule
  /\ W.start = A.start
  /\ W.dot = A.dot - 1

\* a leaf edge of item A of column k: the item advanced is in column k - 1
\* and the word is token k - 1
LeafEdgeWellFormed(k, A, e) ==
  /\ e.children = <<>>
  /\ k >= 1
  /\ e.terminalWord = <<input[k]>>
  /\ \E W \in Column(k - 1) : IsAdvancedFrom(A, W, e)

\* a branch edge of item A of column k: the waiting item is in a column
\* j <= k, the completed item is in column k with origin j, and its lhs is
\* the symbol just before the dot of A
BranchEdgeWellFormed(k, A, e) ==
  /\ Len(e.children) = 1
  /\ \E j \in 0..k :
       /\ \E W \in Column(j) : IsAdvancedFrom(A, W, e)
       /\ \E C \in Column(k) :
            /\ C.id = e.children[1]
            /\ IsComplete(C)
            /\ C.start = j
            /\ C.rule.lhs = A.rule.rhs[A.dot]

EdgeWellFormed(k, A, e) ==
  IF e.terminalWord # <<>> THEN LeafEdgeWellFormed(k, A, e)
  ELSE BranchEdgeWellFormed(k, A, e)

\* C29: provenance edges are well-formed in every reachable chart state: an
\* item has at least one edge exactly when its dot is past the start; a
\* leaf edge on an item of column k references an item of the same rule and
\* origin with dot one less in column k - 1 and carries token k - 1; a
\* branch edge on an item of column k references a waiting item of the same
\* rule and origin with dot one less in some column j <= k and a completed
\* item of column k with origin j whose lhs is the symbol just before the dot.
ProvenanceWellFormed ==
  \A pl \in Places :
    LET A == ItemAt(pl)
        itemEdges == EdgesGet(edges, A.id)
    IN /\ (Len(itemEdges) >= 1) <=> (A.dot > 0)
       /\ \A n \in 1..Len(itemEdges) : EdgeWellFormed(pl[1], A, itemEdges[n])

\* the chart is under construction and holds an item with a leaf edge, an
\* item with a branch edge whose waiting item is in an earlier column and
\* an item with a branch edge whose waiting item is in its own column
BothKindsOfEdge ==
  /\ pc = "chart"
  /\ \E pl \in Places :
       \E e \in Range(EdgesGet(edges, ItemAt(pl).id)) : e.terminalWord # <<>>
  /\ \E pl \in Places :
       \E e \in Range(EdgesGet(edges, ItemAt(pl).id)) :
         /\ e.terminalWord = <<>>
         /\ \E W \in UNION {Column(j) : j \in 0..(pl[1] - 1)} : W.id = e.itemId
  /\ \E pl \in Places :
       \E e \in Range(EdgesGet(edges, ItemAt(pl).id)) :
         e.terminalWord = <<>> /\ \E W \in Column(pl[1]) : W.id = e.itemId

----------------------------------------------------------------------------
(* C30: where items are inserted *)

\* the columns (0-based) that the step changes
ChangedColumns == {k \in 0..(Len(chart) - 1) : chart'[k + 1] # chart[k + 1]}

\* the item being processed expects a terminal
CurrentExpectsTerminal ==
  /\ CurrentItem.dot < Len(CurrentItem.rule.rhs)
  /\ isTerminal(NextSymbolOf(CurrentItem)[1])

\* a step of the chart loop inserts into column pos when it predicts or
\* completes and into column pos + 1 when it scans; it appends only, and
\* pos never goes back
InsertsHereOrNext ==
  pc = "chart" =>
    /\ ItemsKeepPlaces
    /\ pos' >= pos
    /\ InLoop => ChangedColumns \subseteq (IF CurrentExpectsTerminal THEN {pos + 1} ELSE {pos})
    /\ ~InLoop => ChangedColumns = {}

\* every item of column k has its origin at or before k and its dot within
\* its rule
ItemsWithinBounds ==
  \A pl \in Places :
    /\ ItemAt(pl).start \in 0..pl[1]
    /\ ItemAt(pl).dot \in 0..Len(ItemAt(pl).rule.rhs)

\* C30: processing column pos inserts items only into column pos
\* (prediction, completion) or column pos + 1 (scanning); once processing
\* has moved past a column, that column and all earlier columns never
\* change; every item of column k has origin <= k and 0 <= dot <= Len(rhs).
ColumnsFillLeftToRight == []ItemsWithinBounds /\ [][InsertsHereOrNext]_vars

\* processing is past the first column; the column being processed has
\* received a predicted item and a completed-over item, the next column a
\* scanned item
InsertedHereAndNext ==
  /\ pc = "chart" /\ pos >= 1 /\ pos < Len(input)
  /\ chart[pos + 2] # <<>>
  /\ \E A \in Column(pos) : A.dot = 0 /\ A.start = pos
  /\ \E A \in Column(pos) :
       \E e \in Range(EdgesGet(edges, A.id)) : e.terminalWord = <<>>

====
